---- MODULE Spec2Model ----
(***************************************************************************)
(* ESLib: typed publish/subscribe event bus.                               *)
(*                                                                         *)
(* The model covers the topic registry (EventRegistry), the handler        *)
(* collections (SubscriberCollection), the deferred event queue            *)
(* (EventQueue, a singly linked list guarded by a recursive mutex) and the *)
(* facade (EventSystem).  Every thread owns a call stack of frames; a      *)
(* frame is one activation of a library function, and its pc is the        *)
(* position inside that function.  Handlers are closures whose body either *)
(* only records the invocation or publishes a further event.               *)
(***************************************************************************)
EXTENDS Integers, Sequences, FiniteSets, TLC

\* ------------------------------------------------------------------ bounds
\* total number of publish calls (top level and from handlers)
MaxEvents == 3
\* handlers added to one collection
MaxHandlers == 1
\* number of direct call() requests
MaxCalls == 1

\* --------------------------------------------------------------- constants
\* the null pointer: an empty queue head/tail, a missing collection
NULL == 0

\* topic names used by the clients
Names == {"a", "b"}
\* argument signatures the clients instantiate the templates with
Sigs == {"int", "const int&", "string"}
\* argument values
ArgVals == {1, 2}
\* the thread of the sequential scenarios
MainThread == "main"
\* mutex owner value of a free mutex
NoThread == ""

\* signatures that differ in the pointee's constness or in a top-level
\* qualifier of a pointer, and reference forms of string
PtrSigs == {"char*", "const char*", "char* const"}
RefSigs == {"string&&", "const string&"}

\* faulty variant: const is dropped on the pointee as well
Decay_pointee(sig) ==
  CASE sig \in {"const int&"} -> "int"
    [] sig \in {"string&&", "const string&"} -> "string"
    [] sig \in {"char* const", "const char*"} -> "char*"
    [] OTHER -> sig

\* std::decay on the argument type: references and top-level cv-qualifiers
\* are removed, everything else (the constness of a pointee) is kept
Decay(sig) ==
  CASE sig \in {"const int&"} -> "int"
    [] sig \in {"string&&", "const string&"} -> "string"
    [] sig \in {"char* const"} -> "char*"
    [] OTHER -> sig

\* handler bodies: "log" only records its invocation, "pub" records it and
\* then publishes <sig>(to, arg) on the same event system, "block" records it
\* and never returns, "throw" records it and throws an exception; a body
\* named after a method of the event system or of its queue records the
\* invocation and calls that method, for topic to with sig and arg
LogBody == [k |-> "log", to |-> "", sig |-> "", arg |-> 0]
BlockBody == [k |-> "block", to |-> "", sig |-> "", arg |-> 0]
ThrowBody == [k |-> "throw", to |-> "", sig |-> "", arg |-> 0]
PubBody(to, sig, arg) == [k |-> "pub", to |-> to, sig |-> sig, arg |-> arg]
\* a handler that publishes on every firing ("pub" stops publishing after
\* MaxEvents publish calls)
RepubBody(to, sig, arg) == [k |-> "repub", to |-> to, sig |-> sig, arg |-> arg]
CallBody(op, to, sig, arg) == [k |-> op, to |-> to, sig |-> sig, arg |-> arg]
HandlerCalls ==
  {"call", "subscribe", "registerEvent", "getSubscribers", "process",
   "processOne", "clear"}
HandlerException == "exception thrown by a handler"

VARIABLES
  subscribersByEventName,  \* EventRegistry: name -> collection id or NULL
  colls,                   \* heap of SubscriberCollection objects, by id
  registryMutex,           \* EventRegistry::registryMutex: its owner
  eventQueueHead,          \* EventQueue: head node or NULL
  eventQueueTail,          \* EventQueue: tail node or NULL
  nodes,                   \* heap of QueuedEvent objects: id -> [ref, arg, next]
  queueMutex,              \* EventQueue::queueMutex (recursive): [owner, count]
  stack,                   \* thread -> sequence of frames, innermost last
  ret,                     \* thread -> result of its last finished top-level call
  evInfo,                  \* history: per enqueued event, in enqueue order
  fireLog,                 \* history: fire() calls, in order
  invLog,                  \* history: handler invocations, in order
  detached,                \* history: events unlinked by process/processOne/clear
  cleared,                 \* history: events discarded by clear or ~EventQueue
  callCtr,                 \* history: number of batches detached so far
  nPub,                    \* number of publish calls started
  nCall,                   \* number of direct call() requests started
  handles,                 \* the client's SubscriptionHandle and
                           \* ScopedSubscription objects, by variable name
  handleImpl,              \* which header's handle classes the build uses
  handleOps,               \* history: the client's latest handle operations
  unsubscribed,            \* history: handlers a handle asked to remove
  destroyed                \* the library objects whose destructor has run

handleVars == <<handles, handleImpl, handleOps, unsubscribed>>

vars == <<subscribersByEventName, colls, registryMutex, eventQueueHead,
          eventQueueTail, nodes, queueMutex, stack, ret, evInfo, fireLog, invLog, detached, cleared,
          callCtr, nPub, nCall, handleVars, destroyed>>

registryVars == <<subscribersByEventName, colls, registryMutex>>
queueVars == <<eventQueueHead, eventQueueTail, nodes>>
histVars == <<evInfo, fireLog, invLog, detached, cleared, callCtr>>

\* ------------------------------------------------------------------ helpers
Last(s) == s[Len(s)]
Front(s) == SubSeq(s, 1, Len(s) - 1)
Range(s) == {s[i] : i \in 1..Len(s)}

\* a frame: one activation of a library function
Frame(op, pc) ==
  [op |-> op, pc |-> pc, name |-> "", sig |-> "", arg |-> 0, body |-> LogBody,
   ref |-> NULL, cur |-> NULL, hi |-> 0, call |-> 0, locked |-> FALSE,
   rest |-> NULL]

NoRet == [op |-> "", val |-> "", n |-> 0]

Top(t) == Last(stack[t])
Running(t) == stack[t] # <<>>
TopIs(t, op, pc) == Running(t) /\ Top(t).op = op /\ Top(t).pc = pc

\* the nodes reachable from p by following next, in list order
RECURSIVE ChainFrom(_, _)
ChainFrom(p, fuel) ==
  IF p = NULL \/ p \notin DOMAIN nodes \/ fuel = 0 THEN <<>>
  ELSE <<p>> \o ChainFrom(nodes[p].next, fuel - 1)
Chain(p) == ChainFrom(p, Cardinality(DOMAIN nodes))

\* a pointer the code may dereference: null or a node that was not deleted.
\* The steps that dereference a queue pointer require it; QueuePointersLive
\* states that the queue never holds any other pointer.
LiveOrNull(p) == p = NULL \/ p \in DOMAIN nodes

\* operator delete on a set of nodes
Delete(ns, dead) == [x \in (DOMAIN ns) \ dead |-> ns[x]]

\* batches (process/processOne calls) that are firing right now
FiringCalls ==
  UNION {{stack[t][i].call : i \in {j \in 1..Len(stack[t]) :
                                      /\ stack[t][j].pc \in {"fire", "blocked"}
                                      /\ stack[t][j].op # "call"}} :
         t \in DOMAIN stack}

\* ------------------------------------------------------- handler collection
\* SubscriberCollection(): no handlers, id counter 0
NewColl(type) == [type |-> type, handlers |-> <<>>, newIdCounter |-> 0]

\* SubscriberCollection::addSubscriberImpl, faulty variant: takes the number
\* of handlers as the id instead of the counter
addSubscriberImpl_reusing(c, body) ==
  [c EXCEPT !.handlers = Append(@, [id |-> Len(c.handlers), body |-> body]),
            !.newIdCounter = @ + 1]

\* SubscriberCollection::addSubscriberImpl, faulty variant: inserts the handler
\* at the front of the vector
addSubscriberImpl_front(c, body) ==
  [c EXCEPT !.handlers = <<[id |-> c.newIdCounter, body |-> body]>> \o @,
            !.newIdCounter = @ + 1]

\* SubscriberCollection::addSubscriberImpl: mint the next id, append
addSubscriberImpl(c, body) ==
  [c EXCEPT !.handlers = Append(@, [id |-> c.newIdCounter, body |-> body]),
            !.newIdCounter = @ + 1]

\* SubscriberCollection::removeHandler, faulty variant: erases the iterator
\* std::find_if returned without comparing it with end(), which drops the
\* last handler when no handler has the id
removeHandler_unguarded(c, handlerId) ==
  LET hit == {i \in 1..Len(c.handlers) : c.handlers[i].id = handlerId}
      at == IF hit = {} THEN Len(c.handlers)
            ELSE CHOOSE i \in hit : \A j \in hit : i <= j
  IN [c EXCEPT !.handlers = SubSeq(@, 1, at - 1) \o SubSeq(@, at + 1, Len(@))]

\* SubscriberCollection::removeHandler, faulty variant: pop_back() instead of
\* erasing the handler that was found
removeHandler_back(c, handlerId) ==
  IF \E i \in 1..Len(c.handlers) : c.handlers[i].id = handlerId
  THEN [c EXCEPT !.handlers = Front(@)]
  ELSE c

\* SubscriberCollection::removeHandler: erase the first handler with this id,
\* if there is one
removeHandler(c, handlerId) ==
  LET hit == {i \in 1..Len(c.handlers) : c.handlers[i].id = handlerId}
  IN IF hit = {} THEN c
     ELSE LET at == CHOOSE i \in hit : \A j \in hit : i <= j
          IN [c EXCEPT !.handlers =
                SubSeq(@, 1, at - 1) \o SubSeq(@, at + 1, Len(@))]

\* --------------------------------------------------------- subscription handles
\* the two definitions of SubscriptionHandle and ScopedSubscription in the
\* sources: inside EventSubscriberCollection.h, and in EventSubscription.h
Bundled == "EventSubscriberCollection.h"
Split == "EventSubscription.h"
HandleImpls == {Bundled, Split}

\* the client's variables: two SubscriptionHandle, two ScopedSubscription
HandleSlots == {"h1", "h2"}
ScopedSlots == {"s1", "s2"}
Discard == ""

\* SubscriptionHandle(): refers to nothing.  alive tells whether the object
\* exists (a ScopedSubscription is constructed and destroyed by the client)
EmptyHandle ==
  [subscriberCollection |-> NULL, subscriberId |-> 0, alive |-> TRUE]

\* SubscriptionHandle(collection, id), as addSubscriberImpl returns it
HandleTo(c, id) ==
  [subscriberCollection |-> c, subscriberId |-> id, alive |-> TRUE]

\* results of the handle operations: the object itself, the handle returned
\* or the other object involved (if any), the collections, and the handlers
\* removeHandler was called for
HandleResult(self, res, cs, removed) ==
  [self |-> self, res |-> res, colls |-> cs, removed |-> removed]

\* SubscriptionHandle::operator=, implicitly defined: copies both members
copyHandle(self, handle) ==
  [self EXCEPT !.subscriberCollection = handle.subscriberCollection,
               !.subscriberId = handle.subscriberId]

\* SubscriptionHandle::unsubscribe
unsubscribe(self, cs) ==
  IF self.subscriberCollection = NULL
  THEN HandleResult(self, EmptyHandle, cs, {})
  ELSE HandleResult([self EXCEPT !.subscriberCollection = NULL], EmptyHandle,
                    [cs EXCEPT ![self.subscriberCollection] =
                       removeHandler(@, self.subscriberId)],
                    {<<self.subscriberCollection, self.subscriberId>>})

\* SubscriptionHandle::clear (EventSubscription.h only)
clear(self) == [self EXCEPT !.subscriberCollection = NULL]

\* ~ScopedSubscription, faulty variant: does not unsubscribe
destroy_trivial(self, cs) ==
  HandleResult([self EXCEPT !.alive = FALSE], EmptyHandle, cs, {})

\* ~ScopedSubscription: unsubscribe(), then the object is gone
destroy(self, cs) ==
  LET u == unsubscribe(self, cs)
  IN HandleResult([u.self EXCEPT !.alive = FALSE], EmptyHandle, u.colls,
                  u.removed)

\* ScopedSubscription(const SubscriptionHandle&): copy of the handle
fromHandle(handle) == copyHandle(EmptyHandle, handle)

\* ScopedSubscription::operator=(const SubscriptionHandle&): unsubscribe(),
\* then copy the handle
assignHandle(self, handle, cs) ==
  LET u == unsubscribe(self, cs)
  IN HandleResult(copyHandle(u.self, handle), EmptyHandle, u.colls, u.removed)

\* ScopedSubscription::release.  EventSubscriberCollection.h: res = *this;
\* *this = SubscriptionHandle(); return res -- the assignment is
\* ScopedSubscription::operator=(const SubscriptionHandle&), the only
\* assignment operator of the class that accepts a SubscriptionHandle.
\* EventSubscription.h: res = *this; clear(); return res.
release(impl, self, cs) ==
  IF impl = Bundled
  THEN LET a == assignHandle(self, EmptyHandle, cs)
       IN HandleResult(a.self, copyHandle(EmptyHandle, self), a.colls,
                       a.removed)
  ELSE HandleResult(clear(self), copyHandle(EmptyHandle, self), cs, {})

\* ScopedSubscription(ScopedSubscription&& other): SubscriptionHandle(
\* other.release()).  self is the new object, res what is left of other
moveConstruct(impl, other, cs) ==
  LET r == release(impl, other, cs)
  IN HandleResult(r.res, r.self, r.colls, r.removed)

\* ScopedSubscription::operator=(ScopedSubscription&& other): unsubscribe();
\* *this = other.release().  res is what is left of other
moveAssign(impl, self, other, cs) ==
  LET u == unsubscribe(self, cs)
      r == release(impl, other, u.colls)
      a == assignHandle(u.self, r.res, r.colls)
  IN HandleResult(a.self, r.self, a.colls,
                  u.removed \cup r.removed \cup a.removed)

\* ----------------------------------------------------------------- registry
\* results: ok = FALSE means std::invalid_argument was thrown (err tells which
\* message), hc is the returned collection pointer
RegResult(ok, err, hc, map, cs) ==
  [ok |-> ok, err |-> err, hc |-> hc, map |-> map, colls |-> cs]

\* the two std::invalid_argument errors of the registry, told apart by message
AlreadyRegistered == "invalid_argument: has already been registered"
TypesDontMatch == "invalid_argument: argument types"
\* the message of the second one names the registered argument types and the
\* ones the method was invoked with
TypesDontMatchMsg(have, given) ==
  TypesDontMatch \o " are " \o have \o " but invoked with " \o given

\* faulty variant: an already registered name is bound to a fresh collection
registerEvent_rebinding(map, cs, name, sig) ==
  RegResult(TRUE, "", Len(cs) + 1, [map EXCEPT ![name] = Len(cs) + 1],
            Append(cs, [type |-> Decay(sig), handlers |-> <<>>,
                        newIdCounter |-> 0]))

\* faulty variant: an already registered name is handed back instead of rejected
registerEvent_lenient(map, cs, name, sig) ==
  IF map[name] # NULL
  THEN RegResult(TRUE, "", map[name], map, cs)
  ELSE RegResult(TRUE, "", Len(cs) + 1,
                 [map EXCEPT ![name] = Len(cs) + 1],
                 Append(cs, NewColl(Decay(sig))))

\* std::map::emplace: a name that is in the map keeps its collection
emplace(map, name, hc) ==
  IF map[name] = NULL THEN [map EXCEPT ![name] = hc] ELSE map

\* EventRegistry::registerEvent<Args...>(name)
registerEvent(map, cs, name, sig) ==
  IF map[name] # NULL
  THEN RegResult(FALSE, AlreadyRegistered, NULL, map, cs)
  ELSE RegResult(TRUE, "", Len(cs) + 1,
                 [map EXCEPT ![name] = Len(cs) + 1],
                 Append(cs, NewColl(Decay(sig))))

\* faulty variant: the stored pointer is returned without the type check
getSubscribers_unchecked(map, cs, name, sig) ==
  RegResult(TRUE, "", map[name], map, cs)

\* faulty variant: a lookup of an absent name registers it
getSubscribers_creating(map, cs, name, sig) ==
  IF map[name] = NULL
  THEN RegResult(TRUE, "", Len(cs) + 1, [map EXCEPT ![name] = Len(cs) + 1],
                 Append(cs, [type |-> Decay(sig), handlers |-> <<>>,
                             newIdCounter |-> 0]))
  ELSE IF cs[map[name]].type # Decay(sig)
       THEN RegResult(FALSE, TypesDontMatchMsg(cs[map[name]].type, sig),
                      NULL, map, cs)
       ELSE RegResult(TRUE, "", map[name], map, cs)

\* EventRegistry::getSubscribers<Args...>(name): NULL when the name is absent,
\* throws when the dynamic_cast to SubscriberCollectionDecay<Args...> fails
getSubscribers(map, cs, name, sig) ==
  IF map[name] = NULL THEN RegResult(TRUE, "", NULL, map, cs)
  ELSE IF cs[map[name]].type # Decay(sig)
       THEN RegResult(FALSE, TypesDontMatchMsg(cs[map[name]].type, sig),
                      NULL, map, cs)
       ELSE RegResult(TRUE, "", map[name], map, cs)

\* faulty variant: an existing topic is replaced by a fresh collection
getOrRegister_replacing(map, cs, name, sig) ==
  IF map[name] # NULL /\ cs[map[name]].type # Decay(sig)
  THEN RegResult(FALSE, TypesDontMatchMsg(cs[map[name]].type, sig),
                 NULL, map, cs)
  ELSE RegResult(TRUE, "", Len(cs) + 1,
                 [map EXCEPT ![name] = Len(cs) + 1],
                 Append(cs, [type |-> Decay(sig), handlers |-> <<>>,
                             newIdCounter |-> 0]))

\* EventRegistry::getOrRegister<Args...>(name)
getOrRegister(map, cs, name, sig) ==
  IF map[name] # NULL
  THEN IF cs[map[name]].type # Decay(sig)
       THEN RegResult(FALSE, TypesDontMatchMsg(cs[map[name]].type, sig),
                      NULL, map, cs)
       ELSE RegResult(TRUE, "", map[name], map, cs)
  ELSE RegResult(TRUE, "", Len(cs) + 1,
                 [map EXCEPT ![name] = Len(cs) + 1],
                 Append(cs, NewColl(Decay(sig))))

\* EventSystem::registerEvent<Args...>(name): hides the registry's method and
\* forwards to getOrRegister
EventSystem_registerEvent(map, cs, name, sig) ==
  getOrRegister(map, cs, name, sig)

\* EventRegistry::getSubscribers(name), the overload without a cast
getSubscribers_untyped(map, cs, name, sig) ==
  RegResult(TRUE, "", map[name], map, cs)

\* faulty variant: a topic without subscribers counts as not registered
publish_known_subscribed(e, cs) == e # NULL /\ cs[e].handlers # <<>>

\* EventSystem::publish: "if (e == NULL) return false", negated
publish_known(e, cs) == e # NULL

\* faulty variant: a topic without subscribers counts as not registered
call_known_subscribed(e, cs) == e # NULL /\ cs[e].handlers # <<>>

\* EventSystem::call: "if (e == NULL) return false", negated
call_known(e, cs) == e # NULL

\* -------------------------------------------------------------------- queue
\* faulty variant: the new node is pushed in front of the head
enqueue_tuple_front(head, tail, ns, e, ref, arg) ==
  LET n1 == (e :> [ref |-> ref, arg |-> arg, next |-> head]) @@ ns
  IN [head |-> e, tail |-> IF head = NULL THEN e ELSE tail, nodes |-> n1]

\* faulty variant: the old tail is not linked to the new node
enqueue_tuple_unlinked(head, tail, ns, e, ref, arg) ==
  LET n1 == (e :> [ref |-> ref, arg |-> arg, next |-> NULL]) @@ ns
  IN IF head = NULL
     THEN [head |-> e, tail |-> e, nodes |-> n1]
     ELSE [head |-> head, tail |-> e, nodes |-> n1]

\* EventQueue::enqueue_tuple, the push under the lock; e is the new node
enqueue_tuple(head, tail, ns, e, ref, arg) ==
  LET n1 == (e :> [ref |-> ref, arg |-> arg, next |-> NULL]) @@ ns
  IN IF head = NULL
     THEN [head |-> e, tail |-> e, nodes |-> n1]
     ELSE [head |-> head, tail |-> e,
           nodes |-> [n1 EXCEPT ![tail].next = e]]

\* faulty variant: process and processOne report an event on an empty queue
process_empty_true == "true"

\* EventQueue::process and processOne, "queue is empty": return false
process_empty == "false"

\* faulty variant: head and tail are not cleared, the batch stays linked to the queue
process_detach_forgotten(head, tail) == [head |-> head, tail |-> tail]

\* faulty variant: only the tail is cleared
process_detach_head_kept(head, tail) == [head |-> head, tail |-> NULL]

\* EventQueue::process, "clear head/tail references"
process_detach(head, tail) == [head |-> NULL, tail |-> NULL]

\* EventQueue::processOne, faulty variant: detaches the whole queue as
\* process() does, but fires only the head
processOne_detach_all(head, tail, ns) == [head |-> NULL, tail |-> NULL]

\* EventQueue::processOne, faulty variant: the tail is not reset when the
\* last event is taken
processOne_detach_tail_kept(head, tail, ns) ==
  [head |-> ns[head].next, tail |-> tail]

\* EventQueue::processOne, "remove from head" and "reset tail if empty"
processOne_detach(head, tail, ns) ==
  [head |-> ns[head].next,
   tail |-> IF head = tail THEN NULL ELSE tail]

\* EventQueue::clear, faulty variant: the tail reference is not cleared
clear_detach_tail_kept(head, tail) == [head |-> NULL, tail |-> tail]

\* EventQueue::clear, "clear head/tail references"
clear_detach(head, tail) == [head |-> NULL, tail |-> NULL]

\* faulty variant: the walk starts counting behind the head
size_count_behind_head(head) ==
  IF Chain(head) = <<>> THEN 0 ELSE Len(Chain(head)) - 1

\* EventQueue::size, the counting loop
size_count(head) == Len(Chain(head))

\* EventQueue::processForSubscribers(subscribers), which
\* EventSystem::processNamed calls: it detaches the queue, fires the detached
\* events whose captured collection is subscribers, in order, and leaves the
\* other events queued in their order.
\* faulty variant: every detached event is fired
processForSubscribers_matching_all(head, subscribers) == Chain(head)

\* the detached events that are fired
processForSubscribers_matching(head, subscribers) ==
  SelectSeq(Chain(head), LAMBDA e : nodes[e].ref = subscribers)

\* the detached events that stay queued
processForSubscribers_others(head, subscribers) ==
  SelectSeq(Chain(head), LAMBDA e : nodes[e].ref # subscribers)

\* the nodes of q linked in the order of q
Relink(ns, q) ==
  [x \in DOMAIN ns |->
     IF x \in Range(q)
     THEN LET i == CHOOSE k \in 1..Len(q) : q[k] = x
          IN [ns[x] EXCEPT !.next = IF i < Len(q) THEN q[i + 1] ELSE NULL]
     ELSE ns[x]]

\* the queue once the events that were not fired are linked to it again:
\* they remain queued ahead of the events enqueued in the meantime
processForSubscribers_requeue(kept, queued) == kept \o queued

\* faulty variant: the destructor destroys the first unhandled event only
EventQueue_destructor_first_only(head) ==
  IF head = NULL THEN <<>> ELSE <<head>>

\* ~EventQueue: the unhandled events its loop deletes, from the head on
EventQueue_destructor(head) == Chain(head)

\* ~EventQueue prints its warning when events are still queued
EventQueue_destructor_warns(head) == head # NULL

\* EventQueue::isEmpty
isEmpty_check(head) == head = NULL

\* ------------------------------------------------------ parameter parsing
\* A std::string is the sequence of its characters.
UpperCase == <<"A", "B", "C", "D", "E", "F", "G", "H", "I", "J", "K", "L", "M",
               "N", "O", "P", "Q", "R", "S", "T", "U", "V", "W", "X", "Y", "Z">>
LowerCase == <<"a", "b", "c", "d", "e", "f", "g", "h", "i", "j", "k", "l", "m",
               "n", "o", "p", "q", "r", "s", "t", "u", "v", "w", "x", "y", "z">>

\* tolower in the "C" locale
tolower(ch) ==
  IF \E i \in DOMAIN UpperCase : UpperCase[i] = ch
  THEN LowerCase[CHOOSE i \in DOMAIN UpperCase : UpperCase[i] = ch]
  ELSE ch

\* faulty variant: the comparison is case-sensitive
matches_case_sensitive(value, expected) == value = expected

\* ParameterValueParser<bool>::matches
matches(value, expected) ==
  /\ Len(value) = Len(expected)
  /\ \A i \in 1..Len(value) : tolower(value[i]) = expected[i]

\* the result of a parse: a value, or the exception it throws
Parsed(v) == [ok |-> TRUE, val |-> v, err |-> ""]
ParseThrows(e) == [ok |-> FALSE, val |-> 0, err |-> e]

IllegalBoolean == "invalid_argument: Illegal boolean value"

\* ParameterValueParser<bool>::parse
ParameterValueParser_bool_parse(stringValue) ==
  IF matches(stringValue, <<"t", "r", "u", "e">>) THEN Parsed(TRUE)
  ELSE IF matches(stringValue, <<"f", "a", "l", "s", "e">>) THEN Parsed(FALSE)
  ELSE ParseThrows(IllegalBoolean)

IllegalInteger == "invalid_argument: Illegal integer value"
Unsupported == "logic_error: Cannot parse an unsupported parameter type."
WrongNumber(expected, got) ==
  "invalid_argument: Wrong number event arguments, expected "
    \o ToString(expected) \o " but got " \o ToString(got)

DecimalDigits == <<"0", "1", "2", "3", "4", "5", "6", "7", "8", "9">>
isdigit(ch) == \E i \in DOMAIN DecimalDigits : DecimalDigits[i] = ch
isspace(ch) == ch \in {" ", "\t", "\n"}

\* operator>>(int&) of an istringstream on stringValue: leading white space
\* is skipped, then an optional sign and the digits that follow are read;
\* the extraction fails when there is no digit.  What follows the digits is
\* left in the stream
RECURSIVE SkipSpace(_)
SkipSpace(chars) ==
  IF chars # <<>> /\ isspace(Head(chars)) THEN SkipSpace(Tail(chars))
  ELSE chars
RECURSIVE ReadDigits(_, _)
ReadDigits(chars, acc) ==
  IF chars # <<>> /\ isdigit(Head(chars))
  THEN ReadDigits(Tail(chars),
                  [n |-> acc.n + 1,
                   val |-> 10 * acc.val
                           + (CHOOSE i \in DOMAIN DecimalDigits :
                                DecimalDigits[i] = Head(chars)) - 1])
  ELSE acc
istream_extract_int(stringValue) ==
  LET a == SkipSpace(stringValue)
      signed == a # <<>> /\ Head(a) \in {"+", "-"}
      d == ReadDigits(IF signed THEN Tail(a) ELSE a, [n |-> 0, val |-> 0])
  IN [fail |-> d.n = 0,
      val |-> IF signed /\ Head(a) = "-" THEN 0 - d.val ELSE d.val]

\* ParameterValueParser<T>::parse for integral T
ParameterValueParser_int_parse(stringValue) ==
  LET r == istream_extract_int(stringValue)
  IN IF r.fail THEN ParseThrows(IllegalInteger) ELSE Parsed(r.val)

\* the argument types of a signature, and ParameterValueParser<T>::valueType
ArgTypes(type) ==
  CASE type = "" -> <<>>
    [] type = "int, bool" -> <<"int", "bool">>
    [] type = "bool, char*" -> <<"bool", "char*">>
    [] OTHER -> <<type>>
valueType(T) ==
  CASE T = "string" -> "STRING"
    [] T = "bool" -> "BOOL"
    [] T = "int" -> "INT"
    [] OTHER -> "UNSUPPORTED"

\* ParameterValueParser<T>::parse
ParameterValueParser_parse(T, stringValue) ==
  CASE valueType(T) = "STRING" -> Parsed(stringValue)
    [] valueType(T) = "BOOL" -> ParameterValueParser_bool_parse(stringValue)
    [] valueType(T) = "INT" -> ParameterValueParser_int_parse(stringValue)
    [] OTHER -> ParseThrows(Unsupported)

\* faulty variant: the length of the vector is not checked; at() throws for
\* a missing string, surplus strings are ignored
parseArgs_unchecked(types, parameterStrings) ==
  IF Len(parameterStrings) < Len(types)
  THEN {ParseThrows("out_of_range: vector")}
  ELSE LET r == [i \in 1..Len(types) |->
                  ParameterValueParser_parse(types[i], parameterStrings[i])]
           bad == {i \in 1..Len(types) : ~r[i].ok}
       IN IF bad = {} THEN {Parsed([i \in 1..Len(types) |-> r[i].val])}
          ELSE {ParseThrows(r[i].err) : i \in bad}

\* faulty variant: a string that cannot be parsed yields the value 0 in the
\* tuple instead of an exception
parseArgs_defaulting(types, parameterStrings) ==
  IF Len(parameterStrings) # Len(types)
  THEN {ParseThrows(WrongNumber(Len(types), Len(parameterStrings)))}
  ELSE LET r == [i \in 1..Len(types) |->
                  ParameterValueParser_parse(types[i], parameterStrings[i])]
       IN {Parsed([i \in 1..Len(types) |-> r[i].val])}

\* EventParametersParser::parseArgs and parseArgsImpl: the outcomes.  The
\* arguments of make_tuple are evaluated in an unspecified order, so that of
\* several malformed strings any can be the one whose exception is thrown
parseArgs(types, parameterStrings) ==
  IF Len(parameterStrings) # Len(types)
  THEN {ParseThrows(WrongNumber(Len(types), Len(parameterStrings)))}
  ELSE LET r == [i \in 1..Len(types) |->
                  ParameterValueParser_parse(types[i], parameterStrings[i])]
           bad == {i \in 1..Len(types) : ~r[i].ok}
       IN IF bad = {} THEN {Parsed([i \in 1..Len(types) |-> r[i].val])}
          ELSE {ParseThrows(r[i].err) : i \in bad}

\* faulty variant: a signature with a supported type can be parsed
canParseArgs_some(types) ==
  types = <<>> \/ \E idx \in 1..Len(types) : valueType(types[idx]) # "UNSUPPORTED"

\* EventParametersParserBase::canParseArgs
canParseArgs(types) ==
  \A idx \in 1..Len(types) : valueType(types[idx]) # "UNSUPPORTED"

\* ----------------------------------------------------------------- mutexes
\* std::unique_lock<std::mutex> lock(registryMutex): the constructor waits
\* until the mutex is free and takes it, the destructor releases it when the
\* function returns or throws.  registryMutex is not recursive.
\* faulty variant: the mutex is taken whether it is free or not
unique_lock_ready_always(m, t) == TRUE

unique_lock_ready(m, t) == m = NoThread

unique_lock_constructor(m, t) == t

\* faulty variant: the mutex stays locked after the function has returned
unique_lock_destructor_forgotten(m, t) == t

unique_lock_destructor(m, t) == NoThread

CanLock(m, t) == m.owner \in {NoThread, t}
Locked(m, t) == [owner |-> t, count |-> m.count + 1]
Unlocked(m) ==
  IF m.count <= 1 THEN [owner |-> NoThread, count |-> 0]
  ELSE [owner |-> m.owner, count |-> m.count - 1]

\* faulty variant: the mutex stays locked while the batch is fired
guard_unlock_forgotten(m) == m

\* guard.unlock() of process/processOne/clear after the queue was detached
guard_unlock(m) == Unlocked(m)

\* -------------------------------------------------------- calls and returns
SetTop(t, f) == [stack EXCEPT ![t] = Front(@) \o <<f>>]

\* EventQueue::processUntilEmpty(maxProcessCalls), which
\* EventSystem::processUntilEmpty calls: it calls process() until process()
\* reports an empty queue or maxProcessCalls batches were processed, and
\* returns the number of batches processed; a negative limit is no limit.
\* faulty variant: one batch more than the limit is processed
processUntilEmpty_continue_inclusive(maxProcessCalls, count) ==
  maxProcessCalls < 0 \/ count <= maxProcessCalls

\* whether another process() call is made after count batches
processUntilEmpty_continue(maxProcessCalls, count) ==
  maxProcessCalls < 0 \/ count < maxProcessCalls

\* the frame f of the bounded processUntilEmpty after its process() call
\* returned v: a batch is counted when process() returned true, the loop
\* ends when it returned false
processUntilEmpty_counted(f, v) ==
  IF v = "true" THEN [f EXCEPT !.hi = @ + 1] ELSE [f EXCEPT !.pc = "return"]

\* faulty variant: processUntilEmpty calls process() once ("if" for "while")
RECURSIVE Deliver_once(_, _, _, _)
Deliver_once(stk, op, v, n) ==
  IF stk = <<>> THEN [stk |-> stk, done |-> TRUE, op |-> op, val |-> v, n |-> n]
  ELSE IF Last(stk).op = "processUntilEmpty"
       THEN Deliver_once(Front(stk), "processUntilEmpty", "void", 0)
       ELSE [stk |-> stk, done |-> FALSE, op |-> op, val |-> v, n |-> n]

\* hand the value v of a returning frame to its caller.  processUntilEmpty
\* ("while (process());") returns as soon as process() returned false.
RECURSIVE Deliver(_, _, _, _)
Deliver(stk, op, v, n) ==
  IF stk = <<>> THEN [stk |-> stk, done |-> TRUE, op |-> op, val |-> v, n |-> n]
  ELSE IF Last(stk).op = "processUntilEmpty" /\ v = "false"
       THEN Deliver(Front(stk), "processUntilEmpty", "void", 0)
  ELSE IF Last(stk).op = "EventSystem_processUntilEmpty"
       THEN [stk |-> Front(stk) \o <<processUntilEmpty_counted(Last(stk), v)>>,
             done |-> FALSE, op |-> op, val |-> v, n |-> n]
       ELSE [stk |-> stk, done |-> FALSE, op |-> op, val |-> v, n |-> n]

\* the top frame of t returns v (n for numbers); a lock guard that still owns
\* the mutex releases it
Finish(t, v, n, owns) ==
  LET r == Deliver(Front(stack[t]), Top(t).op, v, n)
  IN /\ stack' = [stack EXCEPT ![t] = r.stk]
     /\ ret' = IF r.done
               THEN [ret EXCEPT ![t] = [op |-> r.op, val |-> r.val, n |-> r.n]]
               ELSE ret
     /\ queueMutex' = IF owns THEN Unlocked(queueMutex) ELSE queueMutex

\* an exception leaves every frame of t (the library catches nothing); the
\* lock guards of the unwound frames release the mutex
RECURSIVE Releases(_, _)
Releases(m, k) == IF k = 0 THEN m ELSE Releases(Unlocked(m), k - 1)
Throw(t, e) ==
  /\ stack' = [stack EXCEPT ![t] = <<>>]
  /\ ret' = [ret EXCEPT ![t] = [op |-> stack[t][1].op, val |-> e, n |-> 0]]
  /\ queueMutex' =
       Releases(queueMutex,
                Cardinality({i \in 1..Len(stack[t]) : stack[t][i].locked}))

\* ------------------------------------------------------------------ state
\* no handle operation yet
NoOp == [op |-> "", dst |-> Discard, src |-> Discard]

\* the client's handle variables before it used them: the SubscriptionHandle
\* variables are default-constructed, the ScopedSubscription variables are
\* not constructed yet.  impl is the header the handle classes come from
NoHandleOps(impl) ==
  /\ handles = [x \in HandleSlots \cup ScopedSlots |->
                 [EmptyHandle EXCEPT !.alive = (x \in HandleSlots)]]
  /\ handleImpl = impl
  /\ handleOps = [n |-> 0, cur |-> NoOp, prev |-> NoOp]
  /\ unsubscribed = {}

Init ==
  /\ subscribersByEventName = [n \in Names |-> NULL]
  /\ colls = <<>>
  /\ registryMutex = NoThread
  /\ eventQueueHead = NULL
  /\ eventQueueTail = NULL
  /\ nodes = <<>>
  /\ queueMutex = [owner |-> NoThread, count |-> 0]
  /\ stack = [t \in {MainThread} |-> <<>>]
  /\ ret = [t \in {MainThread} |-> NoRet]
  /\ evInfo = <<>>
  /\ fireLog = <<>>
  /\ invLog = <<>>
  /\ detached = {}
  /\ cleared = {}
  /\ callCtr = 0
  /\ nPub = 0
  /\ nCall = 0
  /\ destroyed = {}
  /\ NoHandleOps(Split)

\* ------------------------------------------------------------------ clients
\* a request: the frame of a library function at its entry
Req(op, pc, name, sig, arg, body) ==
  [Frame(op, pc) EXCEPT !.name = name, !.sig = sig, !.arg = arg, !.body = body]

RegisterRequests(ops, names, sigs) ==
  {Req(op, "body", n, s, 0, LogBody) : op \in ops, n \in names, s \in sigs}
SubscribeRequests(names, sigs, bodies) ==
  {Req("subscribe", "body", n, s, 0, b) : n \in names, s \in sigs, b \in bodies}
PublishRequests(names, sigs, args) ==
  {Req("publish", "lookup", n, s, a, LogBody) :
     n \in names, s \in sigs, a \in args}
CallRequests(names, sigs, args) ==
  {Req("call", "lookup", n, s, a, LogBody) :
     n \in names, s \in sigs, a \in args}
QueueRequests(ops) == {Frame(op, "lock") : op \in ops}
ProcessUntilEmptyRequest == Frame("processUntilEmpty", "loop")

\* a handler that publishes is only subscribed when its target topic has the
\* signature it publishes with: the topic it is subscribed to, or a topic that
\* is registered already
WellTyped(f) ==
  f.body.k \in {"pub", "repub"} =>
    IF f.body.to = f.name THEN Decay(f.body.sig) = Decay(f.sig)
    ELSE /\ subscribersByEventName[f.body.to] # NULL
         /\ colls[subscribersByEventName[f.body.to]].type = Decay(f.body.sig)

\* the client's side of the bounds
Admissible(f) ==
  /\ f.op \in {"publish", "enqueueEvent"} => nPub < MaxEvents
  /\ f.op \in {"call", "callEvent"} => nCall < MaxCalls
  /\ f.op = "subscribe" =>
       /\ WellTyped(f)
       /\ subscribersByEventName[f.name] # NULL =>
            colls[subscribersByEventName[f.name]].newIdCounter < MaxHandlers

\* thread t, not inside the library, calls into it
Call(t, f) ==
  /\ stack[t] = <<>>
  /\ Admissible(f)
  /\ stack' = [stack EXCEPT ![t] = <<f>>]
  /\ nPub' = IF f.op \in {"publish", "enqueueEvent"} THEN nPub + 1 ELSE nPub
  /\ nCall' = IF f.op \in {"call", "callEvent"} THEN nCall + 1 ELSE nCall
  /\ UNCHANGED <<registryVars, queueVars, queueMutex, ret, histVars,
                 handleVars, destroyed>>

\* ----------------------------------------------------------------- registry
\* EventRegistry::registerEvent and EventSystem::registerEvent, whole body
\* (it runs under registryMutex and calls nothing else)
RegisterEventBody(t) ==
  /\ Running(t) /\ Top(t).pc = "body"
  /\ Top(t).op \in {"registerEvent", "EventSystem_registerEvent"}
  /\ unique_lock_ready(registryMutex, t)
  /\ registryMutex' = unique_lock_destructor(registryMutex, t)
  /\ LET f == Top(t)
         r == IF f.op = "registerEvent"
              THEN registerEvent(subscribersByEventName, colls, f.name, f.sig)
              ELSE EventSystem_registerEvent(subscribersByEventName, colls,
                                             f.name, f.sig)
     IN /\ subscribersByEventName' = r.map
        /\ colls' = r.colls
        /\ IF r.ok THEN Finish(t, "collection", r.hc, FALSE)
           ELSE Throw(t, r.err)
  /\ UNCHANGED <<queueVars, histVars, nPub, nCall, handleVars, destroyed>>

\* EventRegistry::getOrRegister and the two getSubscribers overloads called
\* by a client, whole body (under registryMutex)
RegistryBody(t) ==
  /\ Running(t) /\ Top(t).pc = "body"
  /\ Top(t).op \in {"getOrRegister", "getSubscribers", "getSubscribers_untyped"}
  /\ unique_lock_ready(registryMutex, t)
  /\ registryMutex' = unique_lock_destructor(registryMutex, t)
  /\ LET f == Top(t)
         r == CASE f.op = "getOrRegister" ->
                     getOrRegister(subscribersByEventName, colls, f.name, f.sig)
                [] f.op = "getSubscribers" ->
                     getSubscribers(subscribersByEventName, colls, f.name, f.sig)
                [] OTHER ->
                     getSubscribers_untyped(subscribersByEventName, colls,
                                            f.name, f.sig)
     IN /\ subscribersByEventName' = r.map
        /\ colls' = r.colls
        /\ IF r.ok THEN Finish(t, "collection", r.hc, FALSE)
           ELSE Throw(t, r.err)
  /\ UNCHANGED <<queueVars, histVars, nPub, nCall, handleVars, destroyed>>

\* EventSystem::subscribe: getOrRegister, then addSubscriber on the result
SubscribeBody(t) ==
  /\ TopIs(t, "subscribe", "body")
  /\ unique_lock_ready(registryMutex, t)
  /\ registryMutex' = unique_lock_destructor(registryMutex, t)
  /\ LET f == Top(t)
         r == getOrRegister(subscribersByEventName, colls, f.name, f.sig)
     IN /\ subscribersByEventName' = r.map
        /\ IF r.ok
           THEN /\ colls' = [r.colls EXCEPT
                               ![r.hc] = addSubscriberImpl(@, f.body)]
                /\ Finish(t, "handle", r.colls[r.hc].newIdCounter, FALSE)
           ELSE /\ colls' = r.colls
                /\ Throw(t, r.err)
  /\ UNCHANGED <<queueVars, histVars, nPub, nCall, handleVars, destroyed>>

\* -------------------------------------------------------------------- facade
\* EventSystem::publish up to the call of dynamicQueue.enqueue (the node is
\* allocated by enqueue_tuple before it asks for the lock)
PublishLookup(t) ==
  /\ TopIs(t, "publish", "lookup")
  /\ unique_lock_ready(registryMutex, t)
  /\ registryMutex' = unique_lock_destructor(registryMutex, t)
  /\ LET f == Top(t)
         r == getSubscribers(subscribersByEventName, colls, f.name, f.sig)
     IN IF ~r.ok THEN Throw(t, r.err)
        ELSE IF ~publish_known(r.hc, colls) THEN Finish(t, "false", 0, FALSE)
        ELSE /\ stack' = SetTop(t, [f EXCEPT !.pc = "lock", !.ref = r.hc])
             /\ UNCHANGED <<ret, queueMutex>>
  /\ UNCHANGED <<subscribersByEventName, colls, queueVars, histVars, nPub,
                 nCall, handleVars, destroyed>>

\* EventSystem::call up to e->call(args...)
CallLookup(t) ==
  /\ TopIs(t, "call", "lookup")
  /\ unique_lock_ready(registryMutex, t)
  /\ registryMutex' = unique_lock_destructor(registryMutex, t)
  /\ LET f == Top(t)
         r == getSubscribers(subscribersByEventName, colls, f.name, f.sig)
     IN IF ~r.ok THEN Throw(t, r.err)
        ELSE IF ~call_known(r.hc, colls) THEN Finish(t, "false", 0, FALSE)
        ELSE /\ stack' = SetTop(t, [f EXCEPT !.pc = "fire", !.ref = r.hc,
                                             !.hi = 1])
             /\ UNCHANGED <<ret, queueMutex>>
  /\ UNCHANGED <<subscribersByEventName, colls, queueVars, histVars, nPub,
                 nCall, handleVars, destroyed>>

\* --------------------------------------------------------------------- queue
\* where a queue function continues once it owns queueMutex
AfterLock(op) ==
  CASE op \in {"publish", "enqueue_tuple"} -> "link"
    [] op \in {"process", "processOne", "clear", "processNamed"} -> "grab"
    [] op = "size" -> "count"
    [] OTHER -> "check"

\* lock_guard / guard.lock() on the recursive queueMutex
Lock(t) ==
  /\ Running(t) /\ Top(t).pc = "lock"
  /\ CanLock(queueMutex, t)
  /\ queueMutex' = Locked(queueMutex, t)
  /\ stack' = SetTop(t, [Top(t) EXCEPT !.pc = AfterLock(Top(t).op),
                                        !.locked = TRUE])
  /\ UNCHANGED <<registryVars, queueVars, ret, histVars, nPub, nCall, handleVars, destroyed>>

\* EventQueue::enqueue_tuple under the lock, and EventSystem::publish's
\* return; subs is a note for the history of the event
EnqueueNode(t, subs) ==
  /\ Running(t) /\ Top(t).pc = "link"
  /\ Top(t).op \in {"publish", "enqueue_tuple"}
  /\ LiveOrNull(eventQueueTail)
  /\ LET f == Top(t)
         e == Len(evInfo) + 1
         q == enqueue_tuple(eventQueueHead, eventQueueTail, nodes, e,
                            f.ref, f.arg)
     IN /\ eventQueueHead' = q.head
        /\ eventQueueTail' = q.tail
        /\ nodes' = q.nodes
        /\ evInfo' = Append(evInfo, [ref |-> f.ref, arg |-> f.arg, by |-> t,
                                     subs |-> subs,
                                     active |-> FiringCalls,
                                     epoch |-> callCtr,
                                     nested |->
                                       Len(stack[t]) >
                                         IF f.op = "publish" THEN 1 ELSE 2])
  /\ Finish(t, IF Top(t).op = "publish" THEN "true" ELSE "void", 0, TRUE)
  /\ UNCHANGED <<registryVars, fireLog, invLog, detached, cleared, callCtr,
                 nPub, nCall, handleVars, destroyed>>

\* the enqueue as such
EnqueueLink(t) ==
  /\ Running(t)
  /\ EnqueueNode(t, {})

\* the enqueue, with a note of the handlers the collection has now (history)
EnqueueLinkNoted(t) ==
  /\ Running(t)
  /\ EnqueueNode(t, {h.id : h \in Range(colls[Top(t).ref].handlers)})

\* EventQueue::process from "grab queue" to the first fire()
ProcessGrab(t) ==
  /\ TopIs(t, "process", "grab")
  /\ LET f == Top(t)
         cur == eventQueueHead
         q == process_detach(eventQueueHead, eventQueueTail)
         m == guard_unlock(queueMutex)
     IN IF cur = NULL
        THEN /\ Finish(t, process_empty, 0, TRUE)
             /\ UNCHANGED <<queueVars, histVars>>
        ELSE /\ eventQueueHead' = q.head
             /\ eventQueueTail' = q.tail
             /\ queueMutex' = m
             /\ stack' = SetTop(t, [f EXCEPT !.pc = "fire", !.cur = cur,
                                             !.hi = 1, !.call = callCtr + 1,
                                             !.locked = (m.owner = t)])
             /\ callCtr' = callCtr + 1
             /\ detached' = detached \cup Range(Chain(cur))
             /\ fireLog' = Append(fireLog, [ev |-> cur, call |-> callCtr + 1,
                                            op |-> "process", by |-> t,
                                            root |-> stack[t][1].op])
             /\ UNCHANGED <<nodes, ret, evInfo, invLog, cleared>>
  /\ UNCHANGED <<registryVars, nPub, nCall, handleVars, destroyed>>

\* EventQueue::processOne from "obtain head queued event" to fire()
ProcessOneGrab(t) ==
  /\ TopIs(t, "processOne", "grab")
  /\ LiveOrNull(eventQueueHead)
  /\ LET f == Top(t)
         toProcess == eventQueueHead
         m == guard_unlock(queueMutex)
     IN IF toProcess = NULL
        THEN /\ Finish(t, process_empty, 0, TRUE)
             /\ UNCHANGED <<queueVars, histVars>>
        ELSE LET q == processOne_detach(eventQueueHead, eventQueueTail, nodes)
             IN /\ eventQueueHead' = q.head
                /\ eventQueueTail' = q.tail
                /\ queueMutex' = m
                /\ stack' = SetTop(t, [f EXCEPT !.pc = "fire",
                                                !.cur = toProcess,
                                                !.hi = 1,
                                                !.call = callCtr + 1,
                                                !.locked = (m.owner = t)])
                /\ callCtr' = callCtr + 1
                /\ detached' = detached \cup {toProcess}
                /\ fireLog' = Append(fireLog, [ev |-> toProcess,
                                               call |-> callCtr + 1,
                                               op |-> "processOne",
                                               by |-> t,
                                               root |-> stack[t][1].op])
                /\ UNCHANGED <<nodes, ret, evInfo, invLog, cleared>>
  /\ UNCHANGED <<registryVars, nPub, nCall, handleVars, destroyed>>

\* faulty variant: the event e fires the handlers that its collection had
\* when it was enqueued and still has (a snapshot of the handler set)
QueuedEvent_fire_snapshot(cs, handlerRef, e) ==
  SelectSeq(cs[handlerRef].handlers,
            LAMBDA h : e = NULL \/ h.id \in evInfo[e].subs)

\* QueuedEvent::fire, handlerRef->call_tuple(args), and
\* SubscriberCollection::call: the handlers the collection has now
QueuedEvent_fire(cs, handlerRef, e) == cs[handlerRef].handlers

\* the call a handler body makes
HandlerRequest(b) ==
  CASE b.k \in {"pub", "repub"} ->
         Req("publish", "lookup", b.to, b.sig, b.arg, LogBody)
    [] b.k = "call" -> Req("call", "lookup", b.to, b.sig, b.arg, LogBody)
    [] b.k \in {"process", "processOne", "clear"} -> Frame(b.k, "lock")
    [] OTHER -> Req(b.k, "body", b.to, b.sig, 0, LogBody)

\* one handler of SubscriberCollection::call / call_tuple runs
InvokeHandler(t, f, c, a, h) ==
  /\ invLog' = Append(invLog, [ev |-> f.cur, coll |-> c, id |-> h.id,
                               arg |-> a, call |-> f.call])
  /\ h.body.k = "repub" => nPub < MaxEvents  \* bound: the run ends here
  /\ IF h.body.k = "throw"
     THEN /\ Throw(t, HandlerException)
          /\ UNCHANGED nPub
     ELSE /\ UNCHANGED <<ret, queueMutex>>
          /\ IF \/ h.body.k = "pub" /\ nPub < MaxEvents  \* bound on publish
                \/ h.body.k = "repub"
                \/ h.body.k \in HandlerCalls
             THEN /\ stack' = [stack EXCEPT ![t] =
                                 Front(@) \o <<[f EXCEPT !.hi = @ + 1],
                                               HandlerRequest(h.body)>>]
                  /\ nPub' = IF h.body.k \in {"pub", "repub"}
                             THEN nPub + 1 ELSE nPub
             ELSE /\ stack' = SetTop(t, [f EXCEPT !.hi = @ + 1,
                                                  !.pc = IF h.body.k = "block"
                                                         THEN "blocked" ELSE @])
                  /\ UNCHANGED nPub
  /\ UNCHANGED <<registryVars, queueVars, evInfo, fireLog, detached, cleared,
                 callCtr, nCall, handleVars, destroyed>>

\* the handler loop is over: call() returns, process/processOne delete the
\* event; process goes on with the next event of its batch
EndFire(t, f) ==
  /\ UNCHANGED <<registryVars, eventQueueHead, eventQueueTail, evInfo, invLog,
                 detached, cleared, callCtr, nPub, nCall, handleVars, destroyed>>
  /\ IF f.op = "call"
     THEN /\ Finish(t, "true", 0, f.locked)
          /\ UNCHANGED <<nodes, fireLog>>
     ELSE LET next == nodes[f.cur].next
          IN /\ nodes' = Delete(nodes, {f.cur})
             /\ IF f.op = "processNamed" /\ next = NULL
                THEN /\ stack' = SetTop(t, [f EXCEPT !.pc = "requeue"])
                     /\ UNCHANGED <<fireLog, ret, queueMutex>>
                ELSE IF f.op = "processOne" \/ next = NULL
                THEN /\ Finish(t, "true", 0, f.locked)
                     /\ UNCHANGED fireLog
                ELSE /\ stack' = SetTop(t, [f EXCEPT !.cur = next, !.hi = 1])
                     /\ fireLog' = Append(fireLog, [ev |-> next,
                                                    call |-> f.call,
                                                    op |-> f.op,
                                                    by |-> t,
                                                    root |-> stack[t][1].op])
                     /\ UNCHANGED <<ret, queueMutex>>

\* QueuedEvent::fire / SubscriberCollection::call: one step of the loop
FireStep(t) ==
  /\ Running(t) /\ Top(t).pc = "fire"
  /\ Top(t).op # "call" => Top(t).cur \in DOMAIN nodes
  /\ LET f == Top(t)
         c == IF f.op = "call" THEN f.ref ELSE nodes[f.cur].ref
         a == IF f.op = "call" THEN f.arg ELSE nodes[f.cur].arg
         hs == QueuedEvent_fire(colls, c, f.cur)
     IN IF f.hi <= Len(hs) THEN InvokeHandler(t, f, c, a, hs[f.hi])
        ELSE EndFire(t, f)

\* EventQueue::clear
ClearGrab(t) ==
  /\ TopIs(t, "clear", "grab")
  /\ LET batch == Range(Chain(eventQueueHead))
         q == clear_detach(eventQueueHead, eventQueueTail)
     IN /\ eventQueueHead' = q.head
        /\ eventQueueTail' = q.tail
        /\ nodes' = Delete(nodes, batch)
        /\ detached' = detached \cup batch
        /\ cleared' = cleared \cup batch
  /\ Finish(t, "void", 0, TRUE)
  /\ UNCHANGED <<registryVars, evInfo, fireLog, invLog, callCtr, nPub, nCall, handleVars, destroyed>>

\* EventQueue::size
SizeCount(t) ==
  /\ TopIs(t, "size", "count")
  /\ Finish(t, "size", size_count(eventQueueHead), TRUE)
  /\ UNCHANGED <<registryVars, queueVars, histVars, nPub, nCall, handleVars, destroyed>>

\* EventQueue::isEmpty
IsEmptyCheck(t) ==
  /\ TopIs(t, "isEmpty", "check")
  /\ Finish(t, IF isEmpty_check(eventQueueHead) THEN "true" ELSE "false", 0,
            TRUE)
  /\ UNCHANGED <<registryVars, queueVars, histVars, nPub, nCall, handleVars, destroyed>>

\* EventQueue::processUntilEmpty: the next process() of "while (process());"
ProcessUntilEmptyLoop(t) ==
  /\ TopIs(t, "processUntilEmpty", "loop")
  /\ stack' = [stack EXCEPT ![t] = Append(@, Frame("process", "lock"))]
  /\ UNCHANGED <<registryVars, queueVars, queueMutex, ret, histVars, nPub,
                 nCall, handleVars, destroyed>>

\* EventSystem::processUntilEmpty(maxProcessCalls): one turn of the loop of
\* the bounded EventQueue::processUntilEmpty.  The frame holds the limit in
\* arg and the number of batches processed in hi
ProcessUntilEmptyBounded(t) ==
  /\ Running(t) /\ Top(t).op = "EventSystem_processUntilEmpty"
  /\ IF /\ Top(t).pc = "loop"
        /\ processUntilEmpty_continue(Top(t).arg, Top(t).hi)
     THEN /\ stack' = [stack EXCEPT ![t] = Append(@, Frame("process", "lock"))]
          /\ UNCHANGED <<ret, queueMutex>>
     ELSE Finish(t, "count", Top(t).hi, FALSE)
  /\ UNCHANGED <<registryVars, queueVars, histVars, nPub, nCall, handleVars,
                 destroyed>>

\* the client calls EventSystem::processUntilEmpty(maxProcessCalls); the
\* frame notes the number of batches detached so far and the head of the
\* queue at the call (history)
CallProcessUntilEmpty(t, maxProcessCalls) ==
  /\ stack[t] = <<>>
  /\ Call(t, [Frame("EventSystem_processUntilEmpty", "loop")
                EXCEPT !.arg = maxProcessCalls, !.call = callCtr,
                       !.cur = eventQueueHead])

\* EventSystem::processNamed up to the call of
\* dynamicQueue.processForSubscribers: getSubscribers(name), the overload
\* without a cast, which yields NULL for an unknown name
ProcessNamedLookup(t) ==
  /\ TopIs(t, "processNamed", "lookup")
  /\ unique_lock_ready(registryMutex, t)
  /\ registryMutex' = unique_lock_destructor(registryMutex, t)
  /\ LET f == Top(t)
         r == getSubscribers_untyped(subscribersByEventName, colls, f.name,
                                     f.sig)
     IN stack' = SetTop(t, [f EXCEPT !.pc = "lock", !.ref = r.hc])
  /\ UNCHANGED <<subscribersByEventName, colls, queueVars, queueMutex, ret,
                 histVars, nPub,
                 nCall, handleVars, destroyed>>

\* processForSubscribers under the lock: the queue is detached and split
\* into the events to fire and the events to keep (frame field rest)
ProcessNamedGrab(t) ==
  /\ TopIs(t, "processNamed", "grab")
  /\ LiveOrNull(eventQueueHead)
  /\ LET f == Top(t)
         fire == processForSubscribers_matching(eventQueueHead, f.ref)
         keep == processForSubscribers_others(eventQueueHead, f.ref)
         m == guard_unlock(queueMutex)
         g == [f EXCEPT !.rest = IF keep = <<>> THEN NULL ELSE keep[1],
                        !.locked = (m.owner = t)]
     IN /\ eventQueueHead' = NULL
        /\ eventQueueTail' = NULL
        /\ nodes' = Relink(Relink(nodes, fire), keep)
        /\ queueMutex' = m
        /\ detached' = detached \cup Range(fire)
        /\ IF fire = <<>>
           THEN /\ stack' = SetTop(t, [g EXCEPT !.pc = "requeue"])
                /\ UNCHANGED <<fireLog, callCtr>>
           ELSE /\ stack' = SetTop(t, [g EXCEPT !.pc = "fire",
                                                !.cur = fire[1], !.hi = 1,
                                                !.call = callCtr + 1])
                /\ callCtr' = callCtr + 1
                /\ fireLog' = Append(fireLog, [ev |-> fire[1],
                                               call |-> callCtr + 1,
                                               op |-> "processNamed",
                                               by |-> t,
                                               root |-> stack[t][1].op])
  /\ UNCHANGED <<registryVars, ret, evInfo, invLog, cleared, nPub, nCall,
                 handleVars, destroyed>>

\* processForSubscribers after the last fire(): under the lock, the kept
\* events are linked to the queue again
ProcessNamedRequeue(t) ==
  /\ TopIs(t, "processNamed", "requeue")
  /\ CanLock(queueMutex, t)
  /\ LET f == Top(t)
         q == processForSubscribers_requeue(Chain(f.rest),
                                            Chain(eventQueueHead))
     IN /\ eventQueueHead' = IF q = <<>> THEN NULL ELSE q[1]
        /\ eventQueueTail' = IF q = <<>> THEN NULL ELSE Last(q)
        /\ nodes' = Relink(nodes, q)
  /\ Finish(t, "void", 0, FALSE)
  /\ UNCHANGED <<registryVars, histVars, nPub, nCall, handleVars, destroyed>>

\* ---------------------------------------------------------------- parsing
\* ParameterValueParser<bool>::parse(stringValue), called by the client; a
\* bool is returned as "true" or "false"
ParseBool(t) ==
  /\ TopIs(t, "ParameterValueParser_bool_parse", "body")
  /\ LET r == ParameterValueParser_bool_parse(Top(t).arg)
     IN IF r.ok THEN Finish(t, IF r.val THEN "true" ELSE "false", 0, FALSE)
        ELSE Throw(t, r.err)
  /\ UNCHANGED <<registryVars, queueVars, histVars, nPub, nCall, handleVars,
                 destroyed>>

\* the client calls getParametersParser()->callEvent(parameterStrings) on
\* the collection of topic n, which it got when it registered the topic; the
\* frame notes the number of handler invocations so far (history)
CallEvent(t, n, parameterStrings) ==
  /\ subscribersByEventName[n] # NULL
  /\ Call(t, [Req("callEvent", "parse", n, "", parameterStrings, LogBody)
                EXCEPT !.ref = subscribersByEventName[n],
                       !.call = Len(invLog)])

\* EventParametersParser::callEvent: parseArgs(parameterStrings), and with
\* its tuple the call of subscriberCollection->call_tuple
CallEventParse(t) ==
  /\ TopIs(t, "callEvent", "parse")
  /\ LET f == Top(t)
     IN \E r \in parseArgs(ArgTypes(colls[f.ref].type), f.arg) :
          IF r.ok
          THEN /\ stack' = [stack EXCEPT ![t] =
                              Front(@) \o
                                <<[f EXCEPT !.pc = "return"],
                                  [Frame("call", "fire") EXCEPT
                                     !.ref = f.ref, !.arg = r.val, !.hi = 1]>>]
               /\ UNCHANGED <<ret, queueMutex>>
          ELSE Throw(t, r.err)
  /\ UNCHANGED <<registryVars, queueVars, histVars, nPub, nCall, handleVars,
                 destroyed>>

\* EventParametersParser::callEvent returns after call_tuple
CallEventReturn(t) ==
  /\ TopIs(t, "callEvent", "return")
  /\ Finish(t, "void", 0, FALSE)
  /\ UNCHANGED <<registryVars, queueVars, histVars, nPub, nCall, handleVars,
                 destroyed>>

\* the client calls getParametersParser()->enqueueEvent(queue,
\* parameterStrings) on the collection of topic n; the frame notes the number
\* of events enqueued so far (history)
EnqueueEvent(t, n, parameterStrings) ==
  /\ subscribersByEventName[n] # NULL
  /\ Call(t, [Req("enqueueEvent", "parse", n, "", parameterStrings, LogBody)
                EXCEPT !.ref = subscribersByEventName[n],
                       !.call = Len(evInfo)])

\* EventParametersParser::enqueueEvent: parseArgs(parameterStrings), and with
\* its tuple the call of queue->enqueue_tuple
EnqueueEventParse(t) ==
  /\ TopIs(t, "enqueueEvent", "parse")
  /\ LET f == Top(t)
     IN \E r \in parseArgs(ArgTypes(colls[f.ref].type), f.arg) :
          IF r.ok
          THEN /\ stack' = [stack EXCEPT ![t] =
                              Front(@) \o
                                <<[f EXCEPT !.pc = "return"],
                                  [Frame("enqueue_tuple", "lock") EXCEPT
                                     !.ref = f.ref, !.arg = r.val]>>]
               /\ UNCHANGED <<ret, queueMutex>>
          ELSE Throw(t, r.err)
  /\ UNCHANGED <<registryVars, queueVars, histVars, nPub, nCall, handleVars,
                 destroyed>>

\* EventParametersParser::enqueueEvent returns after enqueue_tuple
EnqueueEventReturn(t) ==
  /\ TopIs(t, "enqueueEvent", "return")
  /\ Finish(t, "void", 0, FALSE)
  /\ UNCHANGED <<registryVars, queueVars, histVars, nPub, nCall, handleVars,
                 destroyed>>

\* the client calls getParametersParser()->canParseArgs() on the collection
\* of topic n
CallCanParseArgs(t, n) ==
  /\ subscribersByEventName[n] # NULL
  /\ ret[t].op # "canParseArgs"
  /\ Call(t, [Frame("canParseArgs", "body")
                EXCEPT !.name = n, !.ref = subscribersByEventName[n]])

\* EventParametersParserBase::canParseArgs, whole body
CanParseArgsBody(t) ==
  /\ TopIs(t, "canParseArgs", "body")
  /\ Finish(t, IF canParseArgs(ArgTypes(colls[Top(t).ref].type))
               THEN "true" ELSE "false", 0, FALSE)
  /\ UNCHANGED <<registryVars, queueVars, histVars, nPub, nCall, handleVars,
                 destroyed>>

\* ------------------------------------------------- registry, step by step
\* The registry methods as several threads run them: the unique_lock, the
\* find in the map, and the rest of the body up to the return.
RegistryOps == {"registerEvent", "getOrRegister", "getSubscribers", "subscribe"}

\* std::unique_lock<std::mutex> lock(registryMutex)
RegistryLock(t) ==
  /\ Running(t) /\ Top(t).pc = "body" /\ Top(t).op \in RegistryOps
  /\ unique_lock_ready(registryMutex, t)
  /\ registryMutex' = unique_lock_constructor(registryMutex, t)
  /\ stack' = SetTop(t, [Top(t) EXCEPT !.pc = "find"])
  /\ UNCHANGED <<subscribersByEventName, colls, queueVars, queueMutex, ret,
                 histVars, nPub, nCall, handleVars, destroyed>>

\* subscribersByEventName.find(name); the frame keeps what was found
RegistryFind(t) ==
  /\ Running(t) /\ Top(t).pc = "find" /\ Top(t).op \in RegistryOps
  /\ stack' = SetTop(t, [Top(t) EXCEPT
                           !.pc = "store",
                           !.cur = subscribersByEventName[Top(t).name]])
  /\ UNCHANGED <<registryVars, queueVars, queueMutex, ret, histVars, nPub,
                 nCall, handleVars, destroyed>>

\* the rest of the body, decided by what find returned: the duplicate or
\* type error, the found collection, or a new collection and its emplace.
\* The lock is released on return and on throw; subscribe goes on with
\* addSubscriber
RegistryStore(t) ==
  /\ Running(t) /\ Top(t).pc = "store" /\ Top(t).op \in RegistryOps
  /\ LET f == Top(t)
         found == [subscribersByEventName EXCEPT ![f.name] = f.cur]
         r == CASE f.op = "registerEvent" ->
                     registerEvent(found, colls, f.name, f.sig)
                [] f.op = "getSubscribers" ->
                     getSubscribers(found, colls, f.name, f.sig)
                [] OTHER -> getOrRegister(found, colls, f.name, f.sig)
     IN /\ colls' = r.colls
        /\ subscribersByEventName' =
             IF r.map = found THEN subscribersByEventName
             ELSE emplace(subscribersByEventName, f.name, r.hc)
        /\ registryMutex' = unique_lock_destructor(registryMutex, t)
        /\ IF ~r.ok THEN Throw(t, r.err)
           ELSE IF f.op = "subscribe"
           THEN /\ stack' = SetTop(t, [f EXCEPT !.pc = "add", !.ref = r.hc])
                /\ UNCHANGED <<ret, queueMutex>>
           ELSE Finish(t, "collection", r.hc, FALSE)
  /\ UNCHANGED <<queueVars, histVars, nPub, nCall, handleVars, destroyed>>

\* EventSystem::subscribe: addSubscriber on the collection getOrRegister
\* returned
SubscribeAdd(t) ==
  /\ TopIs(t, "subscribe", "add")
  /\ LET f == Top(t)
     IN /\ colls' = [colls EXCEPT ![f.ref] = addSubscriberImpl(@, f.body)]
        /\ Finish(t, "handle", colls[f.ref].newIdCounter, FALSE)
  /\ UNCHANGED <<subscribersByEventName, registryMutex, queueVars, histVars,
                 nPub, nCall, handleVars, destroyed>>

\* ---------------------------------------------------------------- teardown
\* The owner destroys a library object when no thread is inside the library.
\* ~EventQueue: deletes the events that are still queued and fires none of
\* them; it prints a warning when there are any and throws nothing.  The
\* members keep their values, the object is gone
DestroyEventQueue(t) ==
  /\ \A u \in DOMAIN stack : stack[u] = <<>>
  /\ "EventQueue" \notin destroyed
  /\ LET batch == Range(EventQueue_destructor(eventQueueHead))
     IN /\ nodes' = Delete(nodes, batch)
        /\ detached' = detached \cup batch
        /\ cleared' = cleared \cup batch
  /\ ret' = [ret EXCEPT ![t] =
              [op |-> "~EventQueue",
               val |-> IF EventQueue_destructor_warns(eventQueueHead)
                       THEN "warning" ELSE "void",
               n |-> 0]]
  /\ destroyed' = destroyed \cup {"EventQueue"}
  /\ UNCHANGED <<registryVars, eventQueueHead, eventQueueTail, queueMutex,
                 stack, evInfo, fireLog, invLog, callCtr, nPub, nCall,
                 handleVars>>

\* ~EventRegistry: deletes every registered collection, and with it the
\* handlers, and clears the map; no handler is called
DestroyEventRegistry(t) ==
  /\ \A u \in DOMAIN stack : stack[u] = <<>>
  /\ "EventRegistry" \notin destroyed
  /\ colls' = <<>>
  /\ subscribersByEventName' = [n \in Names |-> NULL]
  /\ UNCHANGED registryMutex
  /\ ret' = [ret EXCEPT ![t] = [op |-> "~EventRegistry", val |-> "void",
                                n |-> 0]]
  /\ destroyed' = destroyed \cup {"EventRegistry"}
  /\ UNCHANGED <<queueVars, queueMutex, stack, histVars, nPub, nCall,
                 handleVars>>

\* a call into the library while its objects exist
CallAlive(t, f) ==
  /\ destroyed = {}
  /\ Call(t, f)

\* ------------------------------------------------------- handle operations
\* The client's statements on its handle variables.  Each is one call into
\* the library that takes no lock and calls no handler; the client makes it
\* while it is not inside the library (a handler must not unsubscribe).
MaxSubscribers == 3      \* addSubscriber calls per collection
MaxHandleOps == 4        \* handle operations per run

Alive(x) == handles[x].alive

\* the state after the handle operation op on variable dst (and src): the
\* variables hs, the collections cs, removeHandler having been called for the
\* handlers in removed.  handleOps keeps the last two operations;
\* unsubscribed keeps, for each removeHandler call, the operation that made
\* it, its number and the number of handler invocations before it
HandleOp(t, op, dst, src, hs, cs, removed) ==
  /\ stack[t] = <<>>
  /\ handleOps.n < MaxHandleOps
  /\ handles' = hs
  /\ colls' = cs
  /\ unsubscribed' = unsubscribed \cup
       {[coll |-> p[1], id |-> p[2], op |-> op, dst |-> dst, src |-> src,
         n |-> handleOps.n + 1, at |-> Len(invLog)] : p \in removed}
  /\ handleOps' = [n |-> handleOps.n + 1,
                   cur |-> [op |-> op, dst |-> dst, src |-> src],
                   prev |-> handleOps.cur]
  /\ UNCHANGED <<subscribersByEventName, registryMutex, queueVars, queueMutex,
                 stack, ret, histVars, nPub, nCall, handleImpl, destroyed>>

\* x = handle, for a variable x of the client: SubscriptionHandle::operator=
\* for a SubscriptionHandle, the converting constructor for a
\* ScopedSubscription that is being defined, ScopedSubscription::operator=(
\* const SubscriptionHandle&) for one that exists; nothing if the value is
\* dropped
Store(dst, handle, cs) ==
  IF dst = Discard THEN HandleResult(handles, EmptyHandle, cs, {})
  ELSE IF dst \in HandleSlots
  THEN HandleResult([handles EXCEPT ![dst] = copyHandle(@, handle)],
                    EmptyHandle, cs, {})
  ELSE IF ~Alive(dst)
  THEN HandleResult([handles EXCEPT ![dst] = fromHandle(handle)],
                    EmptyHandle, cs, {})
  ELSE LET a == assignHandle(handles[dst], handle, cs)
       IN HandleResult([handles EXCEPT ![dst] = a.self], EmptyHandle,
                       a.colls, a.removed)

\* dst = collection->addSubscriber(handler), on the collection of topic n
AddSubscriber(t, n, dst) ==
  LET c == subscribersByEventName[n]
      s == Store(dst, HandleTo(c, colls[c].newIdCounter),
                 [colls EXCEPT ![c] = addSubscriberImpl(@, LogBody)])
  IN /\ c # NULL
     /\ colls[c].newIdCounter < MaxSubscribers
     /\ HandleOp(t, "addSubscriber", dst, Discard, s.self, s.colls, s.removed)

\* dst = src, both SubscriptionHandle
CopyHandle(t, dst, src) ==
  /\ dst # src
  /\ HandleOp(t, "copy", dst, src,
              [handles EXCEPT ![dst] = copyHandle(@, handles[src])], colls, {})

\* x.unsubscribe(), on a SubscriptionHandle or a ScopedSubscription
Unsubscribe(t, x) ==
  LET u == unsubscribe(handles[x], colls)
  IN /\ Alive(x)
     /\ HandleOp(t, "unsubscribe", x, Discard,
                 [handles EXCEPT ![x] = u.self], u.colls, u.removed)

\* ScopedSubscription s;
ScopedDefault(t, s) ==
  /\ ~Alive(s)
  /\ HandleOp(t, "construct", s, Discard,
              [handles EXCEPT ![s] = EmptyHandle], colls, {})

\* ScopedSubscription s(h); or s = h; for a SubscriptionHandle h
ScopedFromHandle(t, s, h) ==
  LET r == Store(s, handles[h], colls)
  IN /\ Alive(h)
     /\ HandleOp(t, IF Alive(s) THEN "assign" ELSE "fromHandle", s, h,
                 r.self, r.colls, r.removed)

\* ScopedSubscription s(std::move(o));
ScopedMove(t, s, o) ==
  LET m == moveConstruct(handleImpl, handles[o], colls)
  IN /\ ~Alive(s) /\ Alive(o)
     /\ HandleOp(t, "move", s, o,
                 [handles EXCEPT ![s] = m.self, ![o] = m.res],
                 m.colls, m.removed)

\* s = std::move(o);
ScopedMoveAssign(t, s, o) ==
  LET m == moveAssign(handleImpl, handles[s], handles[o], colls)
  IN /\ s # o /\ Alive(s) /\ Alive(o)
     /\ HandleOp(t, "moveAssign", s, o,
                 [handles EXCEPT ![s] = m.self, ![o] = m.res],
                 m.colls, m.removed)

\* dst = s.release(); with a SubscriptionHandle dst, or s.release();
Release(t, s, dst) ==
  LET r == release(handleImpl, handles[s], colls)
      hs == [handles EXCEPT ![s] = r.self]
  IN /\ Alive(s)
     /\ HandleOp(t, "release", dst, s,
                 IF dst = Discard THEN hs
                 ELSE [hs EXCEPT ![dst] = copyHandle(@, r.res)],
                 r.colls, r.removed)

\* the ScopedSubscription s goes out of scope
Destroy(t, s) ==
  LET d == destroy(handles[s], colls)
  IN /\ Alive(s)
     /\ HandleOp(t, "destroy", s, Discard,
                 [handles EXCEPT ![s] = d.self], d.colls, d.removed)

\* ------------------------------------------------------------ specifications
\* Spec: the event system used from one thread.  Topics a and b of signature
\* int, a handler per topic that logs or publishes to b, every queue
\* operation.  The clients publish the value 1, the handlers the value 2.
SeqRequests ==
  SubscribeRequests(Names, {"int"}, {LogBody, PubBody("b", "int", 2)})
  \cup PublishRequests(Names, {"int"}, {1})
  \cup QueueRequests({"process", "processOne", "clear", "size", "isEmpty"})
  \cup {ProcessUntilEmptyRequest}

Next ==
  \E t \in {MainThread} :
    \/ \E f \in SeqRequests : Call(t, f)
    \/ SubscribeBody(t)
    \/ PublishLookup(t)
    \/ Lock(t)
    \/ EnqueueLink(t)
    \/ ProcessGrab(t)
    \/ ProcessOneGrab(t)
    \/ FireStep(t)
    \/ ClearGrab(t)
    \/ SizeCount(t)
    \/ IsEmptyCheck(t)
    \/ ProcessUntilEmptyLoop(t)

Spec == Init /\ [][Next]_vars

\* SpecFacade: publish and call through the facade, on unknown names, on
\* registered topics without subscribers and on topics with subscribers.
FacadeRequests ==
  RegisterRequests({"EventSystem_registerEvent"}, Names, {"int"})
  \cup SubscribeRequests({"a"}, {"int"}, {LogBody})
  \cup PublishRequests(Names, {"const int&"}, ArgVals)
  \cup CallRequests(Names, {"const int&"}, ArgVals)
  \cup QueueRequests({"process"})

NextFacade ==
  \E t \in {MainThread} :
    \/ \E f \in FacadeRequests : Call(t, f)
    \/ RegisterEventBody(t)
    \/ SubscribeBody(t)
    \/ PublishLookup(t)
    \/ CallLookup(t)
    \/ Lock(t)
    \/ EnqueueLink(t)
    \/ ProcessGrab(t)
    \/ FireStep(t)

SpecFacade == Init /\ [][NextFacade]_vars

\* SpecReg: registration through the registry and through the facade, with
\* equal, decay-equal and different signatures.
RegRequests ==
  RegisterRequests({"registerEvent", "EventSystem_registerEvent"}, Names, Sigs)
  \cup SubscribeRequests(Names, Sigs, {LogBody})

NextReg ==
  \E t \in {MainThread} :
    \/ \E f \in RegRequests : Call(t, f)
    \/ RegisterEventBody(t)
    \/ SubscribeBody(t)

SpecReg == Init /\ [][NextReg]_vars

\* SpecConc: producer threads publish to topic a while the consumer thread,
\* which also subscribes the handlers, processes the queue.  A handler logs,
\* publishes to a, or blocks forever.
Consumer == "c"
Producers == {"p1", "p2"}

InitConc ==
  /\ subscribersByEventName = [n \in Names |-> NULL]
  /\ colls = <<>>
  /\ registryMutex = NoThread
  /\ eventQueueHead = NULL
  /\ eventQueueTail = NULL
  /\ nodes = <<>>
  /\ queueMutex = [owner |-> NoThread, count |-> 0]
  /\ stack = [t \in Producers \cup {Consumer} |-> <<>>]
  /\ ret = [t \in Producers \cup {Consumer} |-> NoRet]
  /\ evInfo = <<>>
  /\ fireLog = <<>>
  /\ invLog = <<>>
  /\ detached = {}
  /\ cleared = {}
  /\ callCtr = 0
  /\ nPub = 0
  /\ nCall = 0
  /\ destroyed = {}
  /\ NoHandleOps(Split)

ConsumerRequests ==
  SubscribeRequests({"a"}, {"int"}, {LogBody, PubBody("a", "int", 2), BlockBody})
  \cup QueueRequests({"process", "processOne"})
ProducerRequests == {Req("publish", "lookup", "a", "int", 1, LogBody)}

NextConc ==
  \/ \E f \in ConsumerRequests : Call(Consumer, f)
  \/ \E t \in Producers : \E f \in ProducerRequests : Call(t, f)
  \/ \E t \in Producers \cup {Consumer} :
       \/ SubscribeBody(t)
       \/ PublishLookup(t)
       \/ Lock(t)
       \/ EnqueueLink(t)
       \/ ProcessGrab(t)
       \/ ProcessOneGrab(t)
       \/ FireStep(t)

SpecConc == InitConc /\ [][NextConc]_vars

\* SpecSig: topic a accessed with matching, decay-equal and different
\* signatures through subscribe, publish, call and process, and both names
\* through every registry method.
SigRequests ==
  RegisterRequests({"registerEvent", "EventSystem_registerEvent",
                    "getOrRegister", "getSubscribers",
                    "getSubscribers_untyped"}, Names, Sigs)
  \cup SubscribeRequests({"a"}, Sigs, {LogBody})
  \cup PublishRequests({"a"}, Sigs, {1})
  \cup CallRequests({"a"}, Sigs, {1})
  \cup QueueRequests({"process"})

NextSig ==
  \E t \in {MainThread} :
    \/ \E f \in SigRequests : Call(t, f)
    \/ RegisterEventBody(t)
    \/ RegistryBody(t)
    \/ SubscribeBody(t)
    \/ PublishLookup(t)
    \/ CallLookup(t)
    \/ Lock(t)
    \/ EnqueueLink(t)
    \/ ProcessGrab(t)
    \/ FireStep(t)

SpecSig == Init /\ [][NextSig]_vars

\* SpecLookup: the registry alone, two names and every signature, pointer
\* and reference forms included.
AllSigs == Sigs \cup PtrSigs \cup RefSigs

LookupRequests ==
  RegisterRequests({"registerEvent", "getOrRegister", "getSubscribers",
                    "getSubscribers_untyped"}, Names, AllSigs)
  \cup SubscribeRequests(Names, AllSigs, {LogBody})

NextLookup ==
  \E t \in {MainThread} :
    \/ \E f \in LookupRequests : Call(t, f)
    \/ RegisterEventBody(t)
    \/ RegistryBody(t)
    \/ SubscribeBody(t)

SpecLookup == Init /\ [][NextLookup]_vars

\* SpecHandles: one thread that registers topic a of signature int, adds
\* handlers to its collection keeping the handles in its variables,
\* copies, moves, releases, unsubscribes and destroys them, and in between
\* calls the topic directly.  The handle classes are those of either header.
InitHandles ==
  /\ subscribersByEventName = [n \in Names |-> NULL]
  /\ colls = <<>>
  /\ registryMutex = NoThread
  /\ eventQueueHead = NULL
  /\ eventQueueTail = NULL
  /\ nodes = <<>>
  /\ queueMutex = [owner |-> NoThread, count |-> 0]
  /\ stack = [t \in {MainThread} |-> <<>>]
  /\ ret = [t \in {MainThread} |-> NoRet]
  /\ evInfo = <<>>
  /\ fireLog = <<>>
  /\ invLog = <<>>
  /\ detached = {}
  /\ cleared = {}
  /\ callCtr = 0
  /\ nPub = 0
  /\ nCall = 0
  /\ destroyed = {}
  /\ \E impl \in HandleImpls : NoHandleOps(impl)

HandleRequests ==
  RegisterRequests({"registerEvent"}, {"a"}, {"int"})
  \cup CallRequests({"a"}, {"int"}, {1})

NextHandles ==
  \E t \in {MainThread} :
    \/ \E f \in HandleRequests : Call(t, f)
    \/ RegisterEventBody(t)
    \/ CallLookup(t)
    \/ FireStep(t)
    \/ \E n \in {"a"} :
         \E dst \in HandleSlots \cup ScopedSlots \cup {Discard} :
           AddSubscriber(t, n, dst)
    \/ \E dst \in HandleSlots : \E src \in HandleSlots : CopyHandle(t, dst, src)
    \/ \E x \in HandleSlots \cup ScopedSlots : Unsubscribe(t, x)
    \/ \E s \in ScopedSlots : ScopedDefault(t, s)
    \/ \E s \in ScopedSlots : \E h \in HandleSlots : ScopedFromHandle(t, s, h)
    \/ \E s \in ScopedSlots : \E o \in ScopedSlots : ScopedMove(t, s, o)
    \/ \E s \in ScopedSlots : \E o \in ScopedSlots : ScopedMoveAssign(t, s, o)
    \/ \E s \in ScopedSlots :
         \E dst \in HandleSlots \cup {Discard} : Release(t, s, dst)
    \/ \E s \in ScopedSlots : Destroy(t, s)

SpecHandles == InitHandles /\ [][NextHandles]_vars

\* SpecUnsubscribe: one thread that registers topic a of signature int, adds
\* handlers to its collection, keeps their handles in two SubscriptionHandle
\* variables and one ScopedSubscription or drops them, unsubscribes and
\* destroys, and in between publishes, processes and calls.
MaxHandleEvents == 1     \* events published in SpecUnsubscribe

UnsubscribeRequests == HandleRequests \cup QueueRequests({"process"})

\* the client publishes, MaxHandleEvents times at most
PublishFew(t, f) ==
  /\ nPub < MaxHandleEvents
  /\ Call(t, f)

NextUnsubscribe ==
  \E t \in {MainThread} :
    \/ \E f \in UnsubscribeRequests : Call(t, f)
    \/ \E f \in PublishRequests({"a"}, {"int"}, {1}) : PublishFew(t, f)
    \/ RegisterEventBody(t)
    \/ PublishLookup(t)
    \/ CallLookup(t)
    \/ Lock(t)
    \/ EnqueueLink(t)
    \/ ProcessGrab(t)
    \/ FireStep(t)
    \/ \E n \in {"a"} :
         \E dst \in HandleSlots \cup {"s1", Discard} : AddSubscriber(t, n, dst)
    \/ \E x \in HandleSlots \cup {"s1"} : Unsubscribe(t, x)
    \/ \E s \in {"s1"} : ScopedDefault(t, s)
    \/ \E s \in {"s1"} : Destroy(t, s)

SpecUnsubscribe == InitHandles /\ [][NextUnsubscribe]_vars

\* SpecTeardown: one thread subscribes logging handlers to topics of type
\* int, publishes, processes, and at some point destroys the queue and the
\* registry, in either order
TeardownRequests ==
  SubscribeRequests(Names, {"int"}, {LogBody})
  \cup PublishRequests(Names, {"int"}, {1})
  \cup QueueRequests({"process", "processOne"})

NextTeardown ==
  \E t \in {MainThread} :
    \/ \E f \in TeardownRequests : CallAlive(t, f)
    \/ SubscribeBody(t)
    \/ PublishLookup(t)
    \/ Lock(t)
    \/ EnqueueLink(t)
    \/ ProcessGrab(t)
    \/ ProcessOneGrab(t)
    \/ FireStep(t)
    \/ DestroyEventQueue(t)
    \/ DestroyEventRegistry(t)

SpecTeardown == Init /\ [][NextTeardown]_vars

\* SpecBatches: one thread subscribes handlers that log or publish to b,
\* publishes, and calls process() and processUntilEmpty with no limit (-1,
\* the default) or a limit of 0..MaxBatchLimit batches
MaxBatchLimit == 2

BatchRequests ==
  SubscribeRequests(Names, {"int"}, {LogBody, PubBody("b", "int", 2)})
  \cup PublishRequests(Names, {"int"}, {1})
  \cup QueueRequests({"process"})

NextBatches ==
  \E t \in {MainThread} :
    \/ \E f \in BatchRequests : Call(t, f)
    \/ \E m \in -1..MaxBatchLimit : CallProcessUntilEmpty(t, m)
    \/ SubscribeBody(t)
    \/ PublishLookup(t)
    \/ Lock(t)
    \/ EnqueueLink(t)
    \/ ProcessGrab(t)
    \/ FireStep(t)
    \/ ProcessUntilEmptyBounded(t)

SpecBatches == Init /\ [][NextBatches]_vars

\* SpecDrain: one thread subscribes handlers that log, publish to b a
\* bounded number of times, or publish to their own topic on every firing;
\* it publishes, and calls process(), EventQueue::processUntilEmpty() and
\* EventSystem::processUntilEmpty with no limit (-1) or a limit of
\* 0..MaxBatchLimit batches.  The thread is the only one, so a call it has
\* made goes on until it returns: that is the fairness of DrainStep.
DrainRequests ==
  SubscribeRequests(Names, {"int"}, {LogBody, PubBody("b", "int", 2)})
  \cup {Req("subscribe", "body", n, "int", 0, RepubBody(n, "int", 2)) :
          n \in Names}
  \cup PublishRequests(Names, {"int"}, {1})
  \cup QueueRequests({"process"})

\* EventQueue::processUntilEmpty() is called; the frame notes the number of
\* batches detached so far (history)
CallProcessUntilEmptyQueue(t) ==
  /\ stack[t] = <<>>
  /\ Call(t, [ProcessUntilEmptyRequest EXCEPT !.arg = -1, !.call = callCtr])

DrainStep(t) ==
  \/ SubscribeBody(t)
  \/ PublishLookup(t)
  \/ Lock(t)
  \/ EnqueueLink(t)
  \/ ProcessGrab(t)
  \/ FireStep(t)
  \/ ProcessUntilEmptyLoop(t)
  \/ ProcessUntilEmptyBounded(t)

NextDrain ==
  \E t \in {MainThread} :
    \/ \E f \in DrainRequests : Call(t, f)
    \/ CallProcessUntilEmptyQueue(t)
    \/ \E m \in -1..MaxBatchLimit : CallProcessUntilEmpty(t, m)
    \/ DrainStep(t)

SpecDrain ==
  Init /\ [][NextDrain]_vars /\ WF_vars(DrainStep(MainThread))

\* SpecNamed: one thread subscribes handlers that log or publish to b,
\* publishes to both topics, and calls processNamed for either topic and
\* process()
NamedRequests ==
  SubscribeRequests(Names, {"int"}, {LogBody, PubBody("b", "int", 2)})
  \cup PublishRequests(Names, {"int"}, {1})
  \cup QueueRequests({"process"})
  \cup {Req("processNamed", "lookup", n, "", 0, LogBody) : n \in Names}

NextNamed ==
  \E t \in {MainThread} :
    \/ \E f \in NamedRequests : Call(t, f)
    \/ SubscribeBody(t)
    \/ PublishLookup(t)
    \/ Lock(t)
    \/ EnqueueLink(t)
    \/ ProcessGrab(t)
    \/ FireStep(t)
    \/ ProcessNamedLookup(t)
    \/ ProcessNamedGrab(t)
    \/ ProcessNamedRequeue(t)

SpecNamed == Init /\ [][NextNamed]_vars

\* SpecBool: the client parses one string after the other as a bool: "true"
\* and "false" in every mix of upper and lower case, these with a character
\* appended, put in front, replaced or dropped, and some other strings
CaseVariants(w) ==
  {[i \in 1..Len(w) |->
      IF up[i] THEN UpperCase[CHOOSE k \in DOMAIN LowerCase : LowerCase[k] = w[i]]
      ELSE w[i]] : up \in [1..Len(w) -> BOOLEAN]}

Edits(w) ==
  {Append(w, c) : c \in {" ", "x"}}
  \cup {<<c>> \o w : c \in {" ", "x"}}
  \cup {[w EXCEPT ![i] = c] : i \in 1..Len(w), c \in {" ", "x", "1"}}
  \cup {SubSeq(w, 1, Len(w) - 1), SubSeq(w, 2, Len(w))}

BoolWords == {<<"t", "r", "u", "e">>, <<"f", "a", "l", "s", "e">>}

BoolStrings ==
  LET words == UNION {CaseVariants(w) : w \in BoolWords}
  IN words
     \cup UNION {Edits(w) : w \in words}
     \cup {<<>>, <<"y", "e", "s">>, <<"n", "o">>, <<"1">>, <<"0">>,
           <<"t">>, <<"T", "R", "U", "E", "F", "A", "L", "S", "E">>}

BoolRequests ==
  {Req("ParameterValueParser_bool_parse", "body", "", "bool", v, LogBody) :
     v \in BoolStrings}

NextBool ==
  \E t \in {MainThread} :
    \/ \E f \in BoolRequests : Call(t, f)
    \/ ParseBool(t)

SpecBool == Init /\ [][NextBool]_vars

\* SpecParse: the client registers topic a with no, one or two parameters
\* of supported and unsupported types, adds handlers, and calls the topic
\* with up to MaxValues strings
MaxValues == 3

ParsedSigs == {"", "bool", "int", "string", "int, bool", "bool, char*", "char*"}

ValueStrings ==
  {<<"T", "r", "u", "e">>, <<"f", "A", "l", "S", "e">>, <<"y", "e", "s">>,
   <<"1", "0">>, <<"-", "3">>, <<"1", "x">>, <<>>}

ValueVectors == UNION {[1..n -> ValueStrings] : n \in 0..MaxValues}

ParseRequests == RegisterRequests({"registerEvent"}, {"a"}, ParsedSigs)

NextParse ==
  \E t \in {MainThread} :
    \/ \E f \in ParseRequests : Call(t, f)
    \/ RegisterEventBody(t)
    \/ AddSubscriber(t, "a", Discard)
    \/ \E v \in ValueVectors : CallEvent(t, "a", v)
    \/ CallEventParse(t)
    \/ FireStep(t)
    \/ CallEventReturn(t)

SpecParse == Init /\ [][NextParse]_vars

\* SpecRegistry: the threads p1 and p2 call registerEvent, getOrRegister and
\* getSubscribers for the name a with two signatures, while the thread c
\* subscribes handlers to a; every registry method runs step by step
RegistryRequests ==
  RegisterRequests({"registerEvent", "getOrRegister", "getSubscribers"},
                   {"a"}, {"int", "string"})

NextRegistry ==
  \/ \E t \in Producers : \E f \in RegistryRequests : Call(t, f)
  \/ \E f \in SubscribeRequests({"a"}, {"int"}, {LogBody}) : Call(Consumer, f)
  \/ \E t \in Producers \cup {Consumer} :
       \/ RegistryLock(t)
       \/ RegistryFind(t)
       \/ RegistryStore(t)
       \/ SubscribeAdd(t)

SpecRegistry == InitConc /\ [][NextRegistry]_vars

\* SpecReentrant: the thread c subscribes to topic a a handler that blocks,
\* publishes on a, or calls call, subscribe, registerEvent or getSubscribers
\* for topic b; it calls a, and publishes on a and processes the queue.  The
\* thread p1 calls registerEvent and getSubscribers for b.  The registry
\* methods run step by step
Bystander == "p1"

ReentrantBodies ==
  {BlockBody, PubBody("a", "int", 2)}
  \cup {CallBody(op, "b", "int", 1) :
          op \in {"call", "subscribe", "registerEvent", "getSubscribers"}}

ReentrantRequests ==
  SubscribeRequests({"a"}, {"int"}, ReentrantBodies)
  \cup CallRequests({"a"}, {"int"}, {1})
  \cup QueueRequests({"process"})

NextReentrant ==
  \/ \E f \in ReentrantRequests : Call(Consumer, f)
  \/ \E f \in PublishRequests({"a"}, {"int"}, {1}) : PublishFew(Consumer, f)
  \/ \E f \in RegisterRequests({"registerEvent", "getSubscribers"},
                               {"b"}, {"int"}) : Call(Bystander, f)
  \/ \E t \in Producers \cup {Consumer} :
       \/ RegistryLock(t)
       \/ RegistryFind(t)
       \/ RegistryStore(t)
       \/ SubscribeAdd(t)
       \/ PublishLookup(t)
       \/ CallLookup(t)
       \/ Lock(t)
       \/ EnqueueLink(t)
       \/ ProcessGrab(t)
       \/ FireStep(t)

SpecReentrant == InitConc /\ [][NextReentrant]_vars

\* SpecThrow: the client subscribes handlers that return or throw to the
\* topics a and b, publishes on them and calls process and processOne; it
\* catches what they throw and goes on
ThrowRequests ==
  SubscribeRequests(Names, {"int"}, {LogBody, ThrowBody})
  \cup PublishRequests(Names, {"int"}, {1})
  \cup QueueRequests({"process", "processOne"})

NextThrow ==
  \E t \in {MainThread} :
    \/ \E f \in ThrowRequests : Call(t, f)
    \/ SubscribeBody(t)
    \/ PublishLookup(t)
    \/ Lock(t)
    \/ EnqueueLink(t)
    \/ ProcessGrab(t)
    \/ ProcessOneGrab(t)
    \/ FireStep(t)

SpecThrow == Init /\ [][NextThrow]_vars

\* SpecCapture: the client registers topic a, subscribes and unsubscribes
\* handlers through two handles, publishes on a (MaxHandleEvents times at
\* most) and processes the queue, in any order; each event notes the
\* handlers its collection had when it was enqueued
CaptureRequests ==
  RegisterRequests({"registerEvent"}, {"a"}, {"int"})
  \cup QueueRequests({"process"})

NextCapture ==
  \E t \in {MainThread} :
    \/ \E f \in CaptureRequests : Call(t, f)
    \/ \E f \in PublishRequests({"a"}, {"int"}, ArgVals) : PublishFew(t, f)
    \/ RegisterEventBody(t)
    \/ PublishLookup(t)
    \/ Lock(t)
    \/ EnqueueLinkNoted(t)
    \/ ProcessGrab(t)
    \/ FireStep(t)
    \/ \E dst \in HandleSlots : AddSubscriber(t, "a", dst)
    \/ \E x \in HandleSlots : Unsubscribe(t, x)

SpecCapture == InitHandles /\ [][NextCapture]_vars

\* SpecConsumers: the threads c and p1 both call process and processOne on
\* the one queue, the thread p2 publishes on topic a, to which c subscribes
\* a handler
Consumers == {Consumer, "p1"}

NextConsumers ==
  \/ \E f \in SubscribeRequests({"a"}, {"int"}, {LogBody}) : Call(Consumer, f)
  \/ \E t \in Consumers :
       \E f \in QueueRequests({"process", "processOne"}) : Call(t, f)
  \/ \E t \in Producers \ Consumers :
       \E f \in ProducerRequests : Call(t, f)
  \/ \E t \in Producers \cup Consumers :
       \/ SubscribeBody(t)
       \/ PublishLookup(t)
       \/ Lock(t)
       \/ EnqueueLink(t)
       \/ ProcessGrab(t)
       \/ ProcessOneGrab(t)
       \/ FireStep(t)

SpecConsumers == InitConc /\ [][NextConsumers]_vars

\* SpecNested: the client subscribes to the topics a and b handlers that
\* return, publish on a, or call process, processOne or clear on the queue
\* that fires them; it publishes on a and b and calls process and processOne
NestedBodies ==
  {LogBody, PubBody("a", "int", 2)}
  \cup {CallBody(op, "", "", 0) : op \in {"process", "processOne", "clear"}}

NestedRequests ==
  SubscribeRequests(Names, {"int"}, NestedBodies)
  \cup PublishRequests(Names, {"int"}, {1})
  \cup QueueRequests({"process", "processOne"})

NextNested ==
  \E t \in {MainThread} :
    \/ \E f \in NestedRequests : Call(t, f)
    \/ SubscribeBody(t)
    \/ PublishLookup(t)
    \/ Lock(t)
    \/ EnqueueLink(t)
    \/ ProcessGrab(t)
    \/ ProcessOneGrab(t)
    \/ ClearGrab(t)
    \/ FireStep(t)

SpecNested == Init /\ [][NextNested]_vars

\* SpecMarshal: the client subscribes a handler to topic a with one of the
\* signatures, asks canParseArgs, calls the topic with strings, enqueues
\* events from strings (up to MaxParsedEvents) and processes the queue
MaxParsedEvents == 2
MaxMarshalValues == 2

MarshalStrings ==
  {<<"T", "r", "u", "e">>, <<"y", "e", "s">>, <<"1", "0">>, <<"1", "x">>}

MarshalVectors == UNION {[1..n -> MarshalStrings] : n \in 0..MaxMarshalValues}

MarshalRequests ==
  SubscribeRequests({"a"}, ParsedSigs, {LogBody})
  \cup QueueRequests({"process"})

EnqueueParsed(t, n, parameterStrings) ==
  /\ nPub < MaxParsedEvents
  /\ EnqueueEvent(t, n, parameterStrings)

NextMarshal ==
  \E t \in {MainThread} :
    \/ \E f \in MarshalRequests : Call(t, f)
    \/ SubscribeBody(t)
    \/ CallCanParseArgs(t, "a")
    \/ CanParseArgsBody(t)
    \/ \E v \in MarshalVectors : CallEvent(t, "a", v)
    \/ \E v \in MarshalVectors : EnqueueParsed(t, "a", v)
    \/ CallEventParse(t)
    \/ CallEventReturn(t)
    \/ EnqueueEventParse(t)
    \/ EnqueueEventReturn(t)
    \/ Lock(t)
    \/ EnqueueLink(t)
    \/ ProcessGrab(t)
    \/ FireStep(t)

SpecMarshal == Init /\ [][NextMarshal]_vars

\* ------------------------------------------------------------------- claims
\* every pointer held by the queue, by a node or by a firing frame is null or
\* points to a node that was not deleted
QueuePointersLive ==
  /\ LiveOrNull(eventQueueHead)
  /\ LiveOrNull(eventQueueTail)
  /\ \A x \in DOMAIN nodes : LiveOrNull(nodes[x].next)
  /\ \A t \in DOMAIN stack : \A i \in 1..Len(stack[t]) :
       (stack[t][i].pc \in {"fire", "blocked"} /\ stack[t][i].op # "call")
         => stack[t][i].cur \in DOMAIN nodes

Idle(t) == stack[t] = <<>>
Events == 1..Len(evInfo)
Fires == 1..Len(fireLog)
FiredPos(e) == {k \in Fires : fireLog[k].ev = e}
FiredEvents == {fireLog[k].ev : k \in Fires}
Queue == Chain(eventQueueHead)
Result(op, val, n) == [op |-> op, val |-> val, n |-> n]

\* C1 (Spec): FIFO.  Events are numbered in enqueue order.  fire() is called
\* in increasing event order, the handlers run in that order on the event's
\* own collection, and once a process() call has returned, every event that
\* was enqueued before it detached its batch has been fired by then (or was
\* discarded by clear): nothing is reordered or skipped.
C1_Fifo ==
  /\ \A i, j \in Fires : i < j => fireLog[i].ev < fireLog[j].ev
  /\ \A i, j \in 1..Len(invLog) :
       (i < j /\ invLog[i].ev # NULL /\ invLog[j].ev # NULL)
         => invLog[i].ev <= invLog[j].ev
  /\ \A i \in 1..Len(invLog) :
       invLog[i].ev # NULL => invLog[i].coll = evInfo[invLog[i].ev].ref
  /\ Idle(MainThread) =>
       \A k \in Fires : fireLog[k].op = "process" =>
         \A e \in Events : evInfo[e].epoch < fireLog[k].call =>
           \/ e \in cleared
           \/ \E m \in Fires : /\ fireLog[m].ev = e
                               /\ fireLog[m].call <= fireLog[k].call

\* C1 witness: three events, to both topics, were queued and one process()
\* call fired all three.
C1_Witness ==
  /\ Idle(MainThread)
  /\ ret[MainThread].op = "process"
  /\ Len(fireLog) = 3
  /\ \A k \in Fires : fireLog[k].call = 1
  /\ {evInfo[e].ref : e \in Events} = {1, 2}

\* C2 (SpecConc): an event that was enqueued while a batch was being fired, by
\* a handler of the batch or by another thread, is never fired by the call that
\* fires this batch; as long as no later call has detached it, it is on the
\* queue, and the call that fires it started after it was enqueued.
C2_NotInSameCall ==
  /\ \A k \in Fires : fireLog[k].call \notin evInfo[fireLog[k].ev].active
  /\ \A e \in Events : e \notin detached => e \in Range(Queue)
  /\ \A e \in Events : \A k \in FiredPos(e) : fireLog[k].call > evInfo[e].epoch

\* C2 witness: during the first batch a handler and a producer thread each
\* enqueued an event, and a later call fired both.
C2_Witness ==
  \E k, m \in Fires :
    /\ evInfo[fireLog[k].ev].active = {1} /\ evInfo[fireLog[k].ev].nested
    /\ evInfo[fireLog[m].ev].active = {1}
    /\ evInfo[fireLog[m].ev].by \in Producers
    /\ fireLog[k].call > 1 /\ fireLog[m].call > 1

\* C5 (Spec): when processUntilEmpty() has returned, the queue is empty and
\* every event enqueued so far, those published by handlers included, has been
\* fired (or was discarded by clear); an event published by a handler is fired
\* only after all events enqueued before it.
C5_Reentrancy ==
  /\ (Idle(MainThread) /\ ret[MainThread].op = "processUntilEmpty") =>
       /\ eventQueueHead = NULL
       /\ \A e \in Events : e \in cleared \/ e \in FiredEvents
  /\ \A k \in Fires :
       evInfo[fireLog[k].ev].nested =>
         \A e \in 1..(fireLog[k].ev - 1) :
           e \in cleared \/ \E m \in 1..(k - 1) : fireLog[m].ev = e

\* C5 witness: processUntilEmpty() fired a batch of two events, a handler of
\* that batch published a third one, and a second batch of the same call
\* fired it.
C5_Witness ==
  /\ Idle(MainThread)
  /\ ret[MainThread].op = "processUntilEmpty"
  /\ Len(fireLog) = 3
  /\ \A k \in Fires : fireLog[k].root = "processUntilEmpty"
  /\ fireLog[1].call = 1 /\ fireLog[2].call = 1 /\ fireLog[3].call = 2
  /\ evInfo[3].nested /\ evInfo[3].active = {1}

\* C8 (Spec): the list walk of size() counts exactly the events that were
\* enqueued and not yet detached, isEmpty() agrees with size() = 0, the values
\* the two calls return are these, and a handler runs for an event only after
\* the event was detached, with the arguments and on the collection captured
\* by publish.
C8_Size ==
  /\ size_count(eventQueueHead) = Len(evInfo) - Cardinality(detached)
  /\ isEmpty_check(eventQueueHead) <=> (size_count(eventQueueHead) = 0)
  /\ (Idle(MainThread) /\ ret[MainThread].op = "size") =>
       ret[MainThread].n = Len(evInfo) - Cardinality(detached)
  /\ (Idle(MainThread) /\ ret[MainThread].op = "isEmpty") =>
       (ret[MainThread].val = "true" <=> Len(evInfo) = Cardinality(detached))
  /\ \A i \in 1..Len(invLog) :
       invLog[i].ev # NULL =>
         /\ invLog[i].ev \in detached
         /\ invLog[i].arg = evInfo[invLog[i].ev].arg
         /\ invLog[i].coll = evInfo[invLog[i].ev].ref

\* C8 witness: two events were published, process() fired the first one with
\* its handler, and size() then returned 1.
C8_Witness ==
  /\ Idle(MainThread)
  /\ ret[MainThread] = Result("size", "size", 1)
  /\ Len(evInfo) = 2
  /\ detached = {1}
  /\ \E i \in 1..Len(invLog) : invLog[i].ev = 1 /\ invLog[i].arg = evInfo[1].arg

\* the threads of the state at hand
Threads == DOMAIN stack
\* frames of t in which handler code of a processing call runs
HandlerFrames(t) ==
  {i \in 1..Len(stack[t]) : /\ stack[t][i].pc \in {"fire", "blocked"}
                            /\ stack[t][i].op \in {"process", "processOne"}}
\* the step of the lock's owner that ends with the release of the lock
OwnerStep(o) == EnqueueLink(o) \/ ProcessGrab(o) \/ ProcessOneGrab(o)

\* C3 (SpecConc): while handler code runs inside process() or processOne(),
\* the processing call does not hold queueMutex, and a thread whose innermost
\* frame runs (or is blocked in) a handler does not own it at all.  The mutex
\* is only ever owned once, by a thread whose innermost frame is about to
\* link a node or to detach, and this step is enabled.  So a publish waiting
\* for the lock, in a handler or in another thread, next to a handler that
\* runs or blocks forever, can take the lock or the owner can release it:
\* no state is reachable where enqueue waits for a processing call.
C3_NoLockWhileFiring ==
  /\ \A t \in Threads : \A i \in HandlerFrames(t) : ~stack[t][i].locked
  /\ \A t \in Threads :
       (Running(t) /\ Top(t).pc \in {"fire", "blocked"}) => queueMutex.owner # t
  /\ queueMutex.owner # NoThread =>
       /\ queueMutex.count = 1
       /\ Top(queueMutex.owner).locked
       /\ Top(queueMutex.owner).pc \in {"link", "grab"}
       /\ ENABLED OwnerStep(queueMutex.owner)
  /\ \A t \in Threads :
       TopIs(t, "publish", "lock") =>
         \/ ENABLED Lock(t)
         \/ /\ queueMutex.owner \notin {NoThread, t}
            /\ HandlerFrames(queueMutex.owner) = {}
               \/ Top(queueMutex.owner).op = "publish"
  /\ \A t \in Threads : TopIs(t, "publish", "link") => ENABLED EnqueueLink(t)

\* C3 witness: the consumer's handler is blocked for good inside process(),
\* and both producers have published (and returned true) while it was blocked.
C3_Witness ==
  /\ TopIs(Consumer, "process", "blocked")
  /\ \A p \in Producers :
       /\ Idle(p)
       /\ ret[p] = Result("publish", "true", 0)
       /\ \E e \in Events : evInfo[e].by = p /\ evInfo[e].active # {}

\* events of the batches that are being fired and whose turn is still to come
InFlight ==
  UNION {UNION {IF stack[t][i].op = "process"
                THEN Range(Chain(stack[t][i].cur))
                ELSE {stack[t][i].cur} : i \in HandlerFrames(t)} :
         t \in Threads}

\* C4 (SpecConc): under every interleaving of the producers' publish calls
\* with each other and with the consumer's process()/processOne(), every
\* enqueued event is in exactly one place: on the queue (once), or detached,
\* and then fired or waiting in the batch being fired.  No event is fired
\* twice, only enqueued events are fired, and the events enqueued by one thread
\* are fired in that thread's enqueue order.  When no processing call is in
\* flight, every event was fired exactly once or is on the queue.
C4_EnqueueSafe ==
  /\ \A e \in Events : Cardinality(FiredPos(e)) <= 1
  /\ FiredEvents \subseteq Events
  /\ \A i, j \in 1..Len(Queue) : i # j => Queue[i] # Queue[j]
  /\ \A e \in Events : (e \in Range(Queue)) <=> (e \notin detached)
  /\ \A e \in detached : e \in FiredEvents \/ e \in InFlight
  /\ \A i, j \in Fires :
       (i < j /\ evInfo[fireLog[i].ev].by = evInfo[fireLog[j].ev].by)
         => fireLog[i].ev < fireLog[j].ev
  /\ \A i, j \in 1..Len(Queue) :
       (i < j /\ evInfo[Queue[i]].by = evInfo[Queue[j]].by)
         => Queue[i] < Queue[j]
  /\ (\A t \in Threads : HandlerFrames(t) = {}) =>
       \A e \in Events : Cardinality(FiredPos(e)) = 1 \/ e \in Range(Queue)

\* C4 witness: both producers enqueued, one of them twice and one while a
\* batch was being fired, and all three events were fired, by two processing
\* calls.
C4_Witness ==
  /\ \A t \in Threads : Idle(t)
  /\ Len(evInfo) = 3
  /\ {evInfo[e].by : e \in Events} = Producers
  /\ \E e \in Events : evInfo[e].active # {}
  /\ \A e \in Events : Cardinality(FiredPos(e)) = 1
  /\ eventQueueHead = NULL
  /\ Cardinality({fireLog[k].call : k \in Fires}) = 2

\* the topic of a facade request is registered
Known(f) == subscribersByEventName[f.name] # NULL

\* C6 (SpecFacade): publish(name, args) on an unknown name returns false and
\* leaves the registry, the queue and the handler log as they are; on a known
\* name (with or without subscribers) it goes on to enqueue, and the enqueue
\* step returns true, appends exactly one node, carrying the topic's collection
\* and the arguments, behind the last node of the queue, changes no other node
\* and invokes no handler.
C6_PublishStep ==
  LET f == Top(MainThread)
      e == Len(evInfo) + 1
  IN /\ TopIs(MainThread, "publish", "lookup") =>
          /\ UNCHANGED <<registryVars, queueVars, histVars>>
          /\ IF Known(f)
             THEN /\ stack'[MainThread] =
                       <<[f EXCEPT !.pc = "lock",
                                   !.ref = subscribersByEventName[f.name]]>>
                  /\ UNCHANGED ret
             ELSE /\ stack'[MainThread] = <<>>
                  /\ ret'[MainThread] = Result("publish", "false", 0)
     /\ TopIs(MainThread, "publish", "lock") =>
          UNCHANGED <<registryVars, queueVars, histVars, ret>>
     /\ TopIs(MainThread, "publish", "link") =>
          /\ stack'[MainThread] = <<>>
          /\ ret'[MainThread] = Result("publish", "true", 0)
          /\ Queue' = Append(Queue, e)
          /\ nodes'[e].ref = subscribersByEventName[f.name]
          /\ nodes'[e].arg = f.arg
          /\ DOMAIN nodes' = DOMAIN nodes \cup {e}
          /\ \A x \in DOMAIN nodes :
               /\ nodes'[x].ref = nodes[x].ref
               /\ nodes'[x].arg = nodes[x].arg
               /\ x # eventQueueTail => nodes'[x].next = nodes[x].next
          /\ UNCHANGED <<registryVars, fireLog, invLog, detached, cleared>>
C6_Publish == [][C6_PublishStep]_vars

\* C6 witness: three publish calls were made; one found no topic and enqueued
\* nothing, two were enqueued in order, one of them for a topic that has no
\* subscriber, the last one returned true, and no handler has run.
C6_Witness ==
  /\ Idle(MainThread)
  /\ ret[MainThread] = Result("publish", "true", 0)
  /\ nPub = 3
  /\ Queue = <<1, 2>>
  /\ \E e \in Events : colls[evInfo[e].ref].handlers = <<>>
  /\ invLog = <<>>

\* C7 (SpecFacade): while call(name, args) is running, the registry and the
\* queue (nodes, head, tail, hence content and order) do not change.  On an
\* unknown name it returns false without invoking a handler.  On a known name
\* it goes on to the handler loop, each step of which invokes the next handler
\* of the topic with the arguments of the call, and it returns true only when
\* the latest invocations are the topic's handlers, each once and in order.
C7_CallStep ==
  LET f == Top(MainThread)
      c == subscribersByEventName[f.name]
      hs == colls[c].handlers
      n == Len(hs)
  IN (Running(MainThread) /\ f.op = "call") =>
       /\ UNCHANGED <<registryVars, queueVars, fireLog, detached, cleared>>
       /\ Queue' = Queue
       /\ f.pc = "lookup" =>
            /\ invLog' = invLog
            /\ IF Known(f)
               THEN /\ stack'[MainThread] =
                         <<[f EXCEPT !.pc = "fire", !.ref = c, !.hi = 1]>>
                    /\ UNCHANGED ret
               ELSE /\ stack'[MainThread] = <<>>
                    /\ ret'[MainThread] = Result("call", "false", 0)
       /\ f.pc = "fire" =>
            IF f.hi <= n
            THEN /\ invLog' = Append(invLog, [ev |-> NULL, coll |-> c,
                                              id |-> hs[f.hi].id,
                                              arg |-> f.arg, call |-> 0])
                 /\ stack'[MainThread] = <<[f EXCEPT !.hi = @ + 1]>>
                 /\ UNCHANGED ret
            ELSE /\ invLog' = invLog
                 /\ stack'[MainThread] = <<>>
                 /\ ret'[MainThread] = Result("call", "true", 0)
                 /\ Len(invLog) >= n
                 /\ \A k \in 1..n :
                      invLog[Len(invLog) - n + k] =
                        [ev |-> NULL, coll |-> c, id |-> hs[k].id,
                         arg |-> f.arg, call |-> 0]
C7_Call == [][C7_CallStep]_vars

\* C7 witness: call() returned true after the subscriber of the topic was
\* invoked with the argument 2, while two published events were waiting on the
\* queue; they are still there, in order.
C7_Witness ==
  /\ Idle(MainThread)
  /\ ret[MainThread] = Result("call", "true", 0)
  /\ invLog # <<>>
  /\ Last(invLog).ev = NULL /\ Last(invLog).arg = 2
  /\ Queue = <<1, 2>>
  /\ fireLog = <<>>

\* C9 (SpecReg): EventRegistry::registerEvent on a name that is registered
\* throws std::invalid_argument ("has already been registered") whatever the
\* signature is, and the map and the collections, their handlers included,
\* are the same afterwards.
C9_DuplicateStep ==
  LET f == Top(MainThread)
  IN (TopIs(MainThread, "registerEvent", "body") /\ Known(f)) =>
       /\ stack'[MainThread] = <<>>
       /\ ret'[MainThread] = Result("registerEvent", AlreadyRegistered, 0)
       /\ UNCHANGED registryVars
C9_Duplicate == [][C9_DuplicateStep]_vars

\* C9 witness: registerEvent was rejected as a duplicate in a registry that
\* holds one topic of type int and one of type string, each with its handler.
C9_Witness ==
  /\ Idle(MainThread)
  /\ ret[MainThread] = Result("registerEvent", AlreadyRegistered, 0)
  /\ Len(colls) = 2
  /\ {colls[c].type : c \in 1..Len(colls)} = {"int", "string"}
  /\ \A c \in 1..Len(colls) : Len(colls[c].handlers) = 1

\* C10 (SpecReg): the claim as it is stated: EventSystem::registerEvent on a
\* name that is registered fails with the duplicate error.
C10_FacadeDuplicateStep ==
  LET f == Top(MainThread)
  IN (TopIs(MainThread, "EventSystem_registerEvent", "body") /\ Known(f)) =>
       /\ stack'[MainThread] = <<>>
       /\ ret'[MainThread].val = AlreadyRegistered
C10_FacadeDuplicate == [][C10_FacadeDuplicateStep]_vars

\* C10: what the facade does: a second EventSystem::registerEvent with the
\* same signature returned the existing collection, handler included.
C10_Witness ==
  /\ Idle(MainThread)
  /\ ret[MainThread] = Result("EventSystem_registerEvent", "collection", 1)
  /\ Len(colls) = 1
  /\ Len(colls[1].handlers) = 1
  /\ subscribersByEventName["a"] = 1

\* what the request at hand finds in the registry
Bound(f) == subscribersByEventName[f.name]
BoundType(f) == colls[Bound(f)].type
Unbound(f) == [subscribersByEventName EXCEPT ![f.name] = NULL]
EmptyCollection(ty) == [type |-> ty, handlers |-> <<>>, newIdCounter |-> 0]

\* C11 (SpecLookup): getOrRegister(name, sig).  Absent name: one new empty
\* collection of the decayed signature is created and bound to the name, every
\* other binding and collection is kept, and it is returned.  Name bound to
\* the same decayed signature: the bound collection is returned and the map
\* and all collections, handlers included, are as before.  Name bound to
\* another signature: std::invalid_argument about the argument types, and
\* the registry is as before.
C11_GetOrRegisterStep ==
  LET f == Top(MainThread)
  IN TopIs(MainThread, "getOrRegister", "body") =>
       /\ stack'[MainThread] = <<>>
       /\ ret'[MainThread].op = "getOrRegister"
       /\ IF ~Known(f)
          THEN /\ colls' = Append(colls, EmptyCollection(Decay(f.sig)))
               /\ subscribersByEventName' =
                    [subscribersByEventName EXCEPT ![f.name] = Len(colls) + 1]
               /\ ret'[MainThread] =
                    Result("getOrRegister", "collection", Len(colls) + 1)
          ELSE /\ UNCHANGED registryVars
               /\ IF BoundType(f) = Decay(f.sig)
                  THEN ret'[MainThread] =
                         Result("getOrRegister", "collection", Bound(f))
                  ELSE ret'[MainThread] =
                         Result("getOrRegister",
                                TypesDontMatchMsg(BoundType(f), f.sig), 0)
C11_GetOrRegister == [][C11_GetOrRegisterStep]_vars

\* C11 witness: getOrRegister returned the first collection, which was
\* created before, has its handler, and is one of two collections.
C11_Witness ==
  /\ Idle(MainThread)
  /\ ret[MainThread] = Result("getOrRegister", "collection", 1)
  /\ Len(colls) = 2
  /\ Len(colls[1].handlers) = 1

\* C12 (SpecLookup): getSubscribers<Args>(name) returns NULL for an absent
\* name, throws std::invalid_argument about the argument types for a name
\* bound to another signature (a result distinct from NULL), and returns the
\* bound collection otherwise; the overload without Args returns the bound
\* collection or NULL.  No lookup changes the map or a collection.
C12_LookupStep ==
  LET f == Top(MainThread)
  IN /\ TopIs(MainThread, "getSubscribers", "body") =>
          /\ UNCHANGED registryVars
          /\ stack'[MainThread] = <<>>
          /\ ret'[MainThread] =
               IF ~Known(f) THEN Result("getSubscribers", "collection", NULL)
               ELSE IF BoundType(f) = Decay(f.sig)
                    THEN Result("getSubscribers", "collection", Bound(f))
                    ELSE Result("getSubscribers",
                                TypesDontMatchMsg(BoundType(f), f.sig), 0)
     /\ TopIs(MainThread, "getSubscribers_untyped", "body") =>
          /\ UNCHANGED registryVars
          /\ stack'[MainThread] = <<>>
          /\ ret'[MainThread] =
               Result("getSubscribers_untyped", "collection", Bound(f))
C12_Lookup == [][C12_LookupStep]_vars

\* C12 witness: a lookup of a name bound to string with the signature int
\* threw, next to a name that is not bound; the bound topic has its handler.
C12_Witness ==
  /\ Idle(MainThread)
  /\ ret[MainThread] =
       Result("getSubscribers", TypesDontMatchMsg("string", "int"), 0)
  /\ Len(colls) = 1
  /\ Len(colls[1].handlers) = 1
  /\ \E n \in Names : subscribersByEventName[n] = NULL

\* C13 (SpecSig): over every step of registerEvent, getOrRegister,
\* getSubscribers, subscribe, publish, call and process with matching and
\* with different signatures: a name that is bound stays bound to the same
\* collection, and the collection keeps its argument types; collections are
\* never dropped; two names never share a collection and every collection is
\* bound to exactly one name.
C13_BindingStep ==
  /\ \A n \in Names :
       subscribersByEventName[n] # NULL =>
         /\ subscribersByEventName'[n] = subscribersByEventName[n]
         /\ colls'[subscribersByEventName[n]].type =
              colls[subscribersByEventName[n]].type
  /\ Len(colls') >= Len(colls)
  /\ \A c \in 1..Len(colls') :
       Cardinality({n \in Names : subscribersByEventName'[n] = c}) = 1
  /\ \A n \in Names :
       subscribersByEventName'[n] \in {NULL} \cup (1..Len(colls'))
C13_Binding == [][C13_BindingStep]_vars

\* C13 witness: topic a is bound to int and has a queued event, topic b is
\* bound to another type, and a publish to a with the signature string has
\* just been rejected.
C13_Witness ==
  /\ Idle(MainThread)
  /\ ret[MainThread] = Result("publish", TypesDontMatchMsg("int", "string"), 0)
  /\ subscribersByEventName["a"] # NULL /\ subscribersByEventName["b"] # NULL
  /\ colls[subscribersByEventName["a"]].type = "int"
  /\ colls[subscribersByEventName["b"]].type = "string"
  /\ Queue # <<>>

\* the signatures an access to a topic of the given argument type may use:
\* the type itself, with references and top-level const added
Compatible(ty) ==
  CASE ty = "int" -> {"int", "const int&"}
    [] ty = "string" -> {"string", "string&&", "const string&"}
    [] ty = "char*" -> {"char*", "char* const"}
    [] ty = "const char*" -> {"const char*"}
    [] OTHER -> {}

\* C14 (SpecLookup): an access (getSubscribers, getOrRegister, subscribe) to a
\* registered topic succeeds, on the registered collection, exactly when its
\* signature is the registered type up to references and top-level const;
\* with any other signature, one that differs in the constness of a pointee
\* included, it throws the argument type error and changes nothing.
C14_DecayStep ==
  LET f == Top(MainThread)
      c == Bound(f)
  IN (/\ Running(MainThread) /\ f.pc = "body"
      /\ f.op \in {"getSubscribers", "getOrRegister", "subscribe"}
      /\ Known(f)) =>
       /\ stack'[MainThread] = <<>>
       /\ UNCHANGED subscribersByEventName
       /\ IF f.sig \in Compatible(BoundType(f))
          THEN IF f.op = "subscribe"
               THEN /\ ret'[MainThread].val = "handle"
                    /\ Len(colls'[c].handlers) = Len(colls[c].handlers) + 1
               ELSE /\ ret'[MainThread] = Result(f.op, "collection", c)
                    /\ UNCHANGED colls
          ELSE /\ ret'[MainThread] =
                    Result(f.op, TypesDontMatchMsg(BoundType(f), f.sig), 0)
               /\ UNCHANGED colls
C14_Decay == [][C14_DecayStep]_vars

\* C14 witness: a string topic has a handler, and a lookup of a char* topic
\* with const char* has just been rejected.
C14_Witness ==
  /\ Idle(MainThread)
  /\ ret[MainThread] =
       Result("getSubscribers", TypesDontMatchMsg("char*", "const char*"), 0)
  /\ \E n \in Names :
       /\ subscribersByEventName[n] # NULL
       /\ colls[subscribersByEventName[n]].type = "string"
       /\ Len(colls[subscribersByEventName[n]].handlers) = 1

\* C15 (SpecSig): publish, call and subscribe on a registered name whose
\* argument types differ from the given ones (after decay) throw the argument
\* type error out of the call, in the step of the lookup, and nothing else
\* happens: registry, queue, event history, fire and handler logs are as
\* before.
C15_MismatchStep ==
  LET f == Top(MainThread)
  IN (/\ Running(MainThread) /\ Len(stack[MainThread]) = 1
      /\ f.op \in {"publish", "call", "subscribe"}
      /\ f.pc \in {"lookup", "body"}
      /\ Known(f) /\ BoundType(f) # Decay(f.sig)) =>
       /\ stack'[MainThread] = <<>>
       /\ ret'[MainThread] =
            Result(f.op, TypesDontMatchMsg(BoundType(f), f.sig), 0)
       /\ UNCHANGED <<registryVars, queueVars, histVars>>
C15_Mismatch == [][C15_MismatchStep]_vars

\* C15 witness: call() with the signature string on the int topic a, which
\* has a handler and a queued event, threw; no handler has run.
C15_Witness ==
  /\ Idle(MainThread)
  /\ ret[MainThread] = Result("call", TypesDontMatchMsg("int", "string"), 0)
  /\ Len(colls[subscribersByEventName["a"]].handlers) = 1
  /\ Queue # <<>>
  /\ invLog = <<>>

\* ------------------------------------------------- claims about the handles
\* a handle operation has just been made: op, and the variable it was made on
Did(op) == handleOps'.n = handleOps.n + 1 /\ handleOps'.cur.op = op
Target == handleOps'.cur.dst
Source == handleOps'.cur.src

\* ids of the handlers of collection c, and all ids it has handed out
Registered(c) == {colls[c].handlers[i].id : i \in 1..Len(colls[c].handlers)}
HandedOut(c) == 0..(colls[c].newIdCounter - 1)
Refers(h) ==
  /\ h.subscriberCollection # NULL
  /\ h.subscriberId \in Registered(h.subscriberCollection)

\* the handlers of collection c but the one with this id, in order
Without(c, id) == SelectSeq(colls[c].handlers, LAMBDA e : e.id # id)

\* nothing but the handles and the collections changes
OnlyHandles ==
  UNCHANGED <<subscribersByEventName, queueVars, queueMutex, stack, ret,
              histVars>>

\* C16 (SpecUnsubscribe): h.unsubscribe() on a handle that addSubscriber
\* returned, whose handler is registered, removes exactly that handler: the
\* handler count of its collection drops by one, the other handlers stay, in
\* order, and nothing else changes.  No handler invocation that follows is of
\* a handler that was unsubscribed, and every call() and every event fired by
\* process() invokes all the handlers the collection handed out that were not
\* unsubscribed or destroyed with their ScopedSubscription.
C16_UnsubscribeStep ==
  /\ (Did("unsubscribe") /\ Refers(handles[Target])) =>
       LET h == handles[Target]
           c == h.subscriberCollection
       IN /\ Len(colls'[c].handlers) = Len(colls[c].handlers) - 1
          /\ colls'[c].handlers = Without(c, h.subscriberId)
          /\ colls' = [colls EXCEPT ![c].handlers = Without(c, h.subscriberId)]
          /\ OnlyHandles
  /\ Len(invLog') > Len(invLog) =>
       ~\E u \in unsubscribed :
          /\ u.op = "unsubscribe"
          /\ u.coll = Last(invLog').coll
          /\ u.id = Last(invLog').id
  /\ (Running(MainThread) /\ Top(MainThread).pc = "fire") =>
       LET f == Top(MainThread)
           c == IF f.op = "call" THEN f.ref ELSE nodes[f.cur].ref
           hs == colls[c].handlers
           n == Len(hs)
       IN f.hi > n =>
            /\ Len(invLog) >= n
            /\ \A k \in 1..n :
                 /\ invLog[Len(invLog) - n + k].id = hs[k].id
                 /\ invLog[Len(invLog) - n + k].coll = c
            /\ Registered(c) =
                 HandedOut(c) \ {u.id : u \in {v \in unsubscribed : v.coll = c}}
C16_Unsubscribe == [][C16_UnsubscribeStep]_vars

\* C16 witness: a handler was unsubscribed through its handle while it was
\* registered, and after that a call() and an event fired by process() have
\* each invoked another handler of its collection.
C16_Witness ==
  \E u \in unsubscribed :
    /\ u.op = "unsubscribe"
    /\ ~\E v \in unsubscribed : v.coll = u.coll /\ v.id = u.id /\ v.n < u.n
    /\ \E k \in (u.at + 1)..Len(invLog) :
         /\ invLog[k].coll = u.coll /\ invLog[k].id # u.id
         /\ invLog[k].ev = NULL
    /\ \E k \in (u.at + 1)..Len(invLog) :
         /\ invLog[k].coll = u.coll /\ invLog[k].id # u.id
         /\ invLog[k].ev # NULL

\* C17 (SpecHandles): unsubscribe() on a handle that refers to no registered
\* handler -- it was unsubscribed before, was default-constructed, is a
\* ScopedSubscription that was released, or is a copy of a handle through
\* which the handler was removed already -- removes no handler and changes no
\* collection, leaves every other handle as it is, returns normally, and
\* leaves the handle empty.
C17_IdempotentStep ==
  (Did("unsubscribe") /\ ~Refers(handles[Target])) =>
    /\ colls' = colls
    /\ handles' = [handles EXCEPT ![Target].subscriberCollection = NULL]
    /\ OnlyHandles
C17_Idempotent == [][C17_IdempotentStep]_vars

\* C17 witness: the client added a handler keeping the handle in h1, called
\* h1.unsubscribe() twice, and then unsubscribe() on h2, which it never
\* assigned; only the first of the three calls asked for a removal.
C17_Witness ==
  /\ handleOps = [n |-> 4,
                  cur |-> [op |-> "unsubscribe", dst |-> "h2", src |-> Discard],
                  prev |-> [op |-> "unsubscribe", dst |-> "h1", src |-> Discard]]
  /\ \E u \in unsubscribed :
       /\ unsubscribed = {u}
       /\ u.n = 2 /\ u.op = "unsubscribe" /\ u.dst = "h1"
  /\ \A x \in HandleSlots : handles[x].subscriberCollection = NULL
  /\ colls[subscribersByEventName["a"]].handlers = <<>>

\* the other cases of C17 happen as well: unsubscribe() on a released
\* ScopedSubscription, ...
C17_Released ==
  /\ handleOps.cur = [op |-> "unsubscribe", dst |-> "s1", src |-> Discard]
  /\ handleOps.prev = [op |-> "release", dst |-> "h1", src |-> "s1"]
  /\ handles["h1"].subscriberCollection # NULL
  /\ ~\E u \in unsubscribed : u.n = handleOps.n

\* ... and through a second copy of a handle, after the handler was removed
\* through the first
C17_SecondCopy ==
  /\ handleOps.cur = [op |-> "unsubscribe", dst |-> "h2", src |-> Discard]
  /\ \E u \in unsubscribed : \E v \in unsubscribed :
       /\ u.op = "unsubscribe" /\ u.dst = "h1" /\ u.n = handleOps.n - 1
       /\ v.op = "unsubscribe" /\ v.dst = "h2" /\ v.n = handleOps.n
       /\ u.coll = v.coll /\ u.id = v.id

\* C18 (SpecUnsubscribe): when a ScopedSubscription is destroyed, the handler
\* it refers to is removed from its collection, the other handlers stay, in
\* order; an empty ScopedSubscription removes nothing.  Nothing else changes
\* but that the object is gone, and no handler invocation that follows is of
\* a handler removed by a destructor.
C18_DestroyStep ==
  /\ Did("destroy") =>
       LET h == handles[Target]
           c == h.subscriberCollection
       IN /\ Refers(h) =>
               /\ colls' = [colls EXCEPT ![c].handlers = Without(c, h.subscriberId)]
               /\ Len(colls'[c].handlers) = Len(colls[c].handlers) - 1
               /\ h.subscriberId \notin
                    {colls'[c].handlers[k].id : k \in 1..Len(colls'[c].handlers)}
          /\ c = NULL => colls' = colls
          /\ handles' = [handles EXCEPT ![Target].subscriberCollection = NULL,
                                        ![Target].alive = FALSE]
          /\ OnlyHandles
  /\ Len(invLog') > Len(invLog) =>
       ~\E u \in unsubscribed :
          /\ u.op = "destroy"
          /\ u.coll = Last(invLog').coll
          /\ u.id = Last(invLog').id
C18_Destroy == [][C18_DestroyStep]_vars

\* C18 witness: a ScopedSubscription was destroyed while its handler was
\* registered, and after that a call() and an event fired by process() have
\* each invoked the other handler of the collection.
C18_Witness ==
  \E u \in unsubscribed :
    /\ u.op = "destroy"
    /\ \E k \in (u.at + 1)..Len(invLog) :
         /\ invLog[k].coll = u.coll /\ invLog[k].id # u.id
         /\ invLog[k].ev = NULL
    /\ \E k \in (u.at + 1)..Len(invLog) :
         /\ invLog[k].coll = u.coll /\ invLog[k].id # u.id
         /\ invLog[k].ev # NULL

\* the other case of C18 happens as well: a ScopedSubscription that was
\* default-constructed has just been destroyed, while a handler is registered
C18_Empty ==
  /\ handleOps.cur.op = "destroy"
  /\ handleOps.prev = [op |-> "construct", dst |-> handleOps.cur.dst,
                       src |-> Discard]
  /\ ~\E u \in unsubscribed : u.n = handleOps.n
  /\ subscribersByEventName["a"] # NULL
  /\ Len(colls[subscribersByEventName["a"]].handlers) = 2

\* C19 (SpecHandles): s.release() on a ScopedSubscription leaves every
\* collection as it is, so the handler stays registered; s is empty afterwards
\* and the returned handle is a copy of what s was, so that it still refers to
\* the handler; nothing else changes.  unsubscribe() on a handle that refers
\* to a registered handler removes exactly that handler.
C19_ReleaseStep ==
  /\ Did("release") =>
       LET h == handles[Source]
       IN /\ colls' = colls
          /\ handles'[Source] = [h EXCEPT !.subscriberCollection = NULL]
          /\ Target # Discard =>
               /\ handles'[Target] = copyHandle(handles[Target], h)
               /\ Refers(h) =>
                    h.subscriberId \in
                      {colls'[h.subscriberCollection].handlers[k].id :
                         k \in 1..Len(colls'[h.subscriberCollection].handlers)}
          /\ \A x \in (HandleSlots \cup ScopedSlots) \ {Source, Target} :
               handles'[x] = handles[x]
          /\ OnlyHandles
  /\ (Did("unsubscribe") /\ Refers(handles[Target])) =>
       LET h == handles[Target]
           c == h.subscriberCollection
       IN colls' = [colls EXCEPT ![c].handlers = Without(c, h.subscriberId)]
C19_Release == [][C19_ReleaseStep]_vars

\* the same, for the handle classes of EventSubscription.h only
C19_ReleaseIfSplit == [][handleImpl = Split => C19_ReleaseStep]_vars

\* C19 witness: release() has just been called on a ScopedSubscription that
\* addSubscriber had filled, and the handle it returned is kept in h1.
C19_Witness ==
  /\ handleOps = [n |-> 2,
                  cur |-> [op |-> "release", dst |-> "h1", src |-> "s1"],
                  prev |-> [op |-> "addSubscriber", dst |-> "s1",
                            src |-> Discard]]
  /\ handles["s1"].subscriberCollection = NULL
  /\ handles["h1"].subscriberCollection # NULL

\* C20 (SpecHandles): moving a ScopedSubscription.  Move construction leaves
\* every collection as it is, the new object refers to what the source
\* referred to, and the source is empty.  Move assignment removes the handler
\* the target referred to before, and nothing else, from the collections; the
\* target then refers to what the source referred to, and the source is
\* empty.  Destroying an empty object, such as a moved-from one, changes no
\* collection, so the handler stays registered until the object that refers
\* to it is destroyed, which removes it.
C20_MoveStep ==
  /\ Did("move") =>
       LET h == handles[Source]
       IN /\ colls' = colls
          /\ handles' = [handles EXCEPT
                           ![Target] = copyHandle(EmptyHandle, h),
                           ![Source] = [h EXCEPT !.subscriberCollection = NULL]]
          /\ OnlyHandles
  /\ Did("moveAssign") =>
       LET h == handles[Source]
           old == handles[Target]
           c == old.subscriberCollection
       IN /\ colls' = IF c = NULL THEN colls
                      ELSE [colls EXCEPT
                              ![c].handlers = Without(c, old.subscriberId)]
          /\ handles' = [handles EXCEPT
                           ![Target] = copyHandle(old, h),
                           ![Source] = [h EXCEPT !.subscriberCollection = NULL]]
          /\ OnlyHandles
  /\ Did("destroy") =>
       LET h == handles[Target]
           c == h.subscriberCollection
       IN colls' = IF c = NULL THEN colls
                   ELSE [colls EXCEPT ![c].handlers = Without(c, h.subscriberId)]
C20_Move == [][C20_MoveStep]_vars

\* the same, for the handle classes of EventSubscription.h only
C20_MoveIfSplit == [][handleImpl = Split => C20_MoveStep]_vars

\* C20 witness: a ScopedSubscription that addSubscriber had filled was moved
\* into a new one and then destroyed, and the new one holds the handle.
C20_Witness ==
  /\ handleOps = [n |-> 3,
                  cur |-> [op |-> "destroy", dst |-> "s1", src |-> Discard],
                  prev |-> [op |-> "move", dst |-> "s2", src |-> "s1"]]
  /\ handles["s2"].alive
  /\ handles["s2"].subscriberCollection # NULL
  /\ handles["s2"].subscriberId = 0
  /\ colls[handles["s2"].subscriberCollection].newIdCounter = 1

\* move assignment happens as well: s2, which referred to a handler, has just
\* been assigned from s1, which referred to another
C20_Assigned ==
  /\ handleOps.cur = [op |-> "moveAssign", dst |-> "s2", src |-> "s1"]
  /\ handles["s2"].subscriberCollection # NULL
  /\ handles["s1"].subscriberCollection = NULL
  /\ \E u \in unsubscribed :
       /\ u.n = handleOps.n /\ u.dst = "s2"
       /\ u.id # handles["s2"].subscriberId

\* ids the handles asked collection c to remove
RemovedIds(c) == {u.id : u \in {v \in unsubscribed : v.coll = c}}

\* C21 (SpecHandles): in a collection the ids of the handlers are strictly
\* increasing along the list, hence pairwise distinct.  addSubscriber appends
\* a handler whose id is greater than the id of every handler of the
\* collection and of every handler that was removed from it, so no id is
\* handed out twice, and the handle it returns carries that id.
\* unsubscribe() through a handle takes the handler with the handle's id out
\* of the collection and no other one, also when that handler is gone.
C21_IdsStep ==
  /\ \A c \in DOMAIN colls :
       \A i \in 1..Len(colls[c].handlers) : \A j \in 1..Len(colls[c].handlers) :
         i < j => colls[c].handlers[i].id < colls[c].handlers[j].id
  /\ Did("addSubscriber") =>
       LET c == subscribersByEventName["a"]
           new == Last(colls'[c].handlers)
       IN /\ Len(colls'[c].handlers) > 0
          /\ \A id \in Registered(c) \cup RemovedIds(c) : id < new.id
          /\ Target # Discard =>
               /\ handles'[Target].subscriberCollection = c
               /\ handles'[Target].subscriberId = new.id
  /\ (Did("unsubscribe") /\ handles[Target].subscriberCollection # NULL) =>
       LET h == handles[Target]
           c == h.subscriberCollection
       IN colls' = [colls EXCEPT ![c].handlers = Without(c, h.subscriberId)]
C21_Ids == [][C21_IdsStep]_vars

\* C21 witness: handler 0 was added, its handle copied and the handler
\* removed through the first handle; the handler added after that has id 1,
\* while the copy still carries id 0.
C21_Witness ==
  /\ handleOps.n = 4
  /\ handleOps.cur.op = "addSubscriber"
  /\ handleOps.prev = [op |-> "unsubscribe", dst |-> "h1", src |-> Discard]
  /\ handles["h2"] = HandleTo(subscribersByEventName["a"], 0)
  /\ unsubscribed # {}
  /\ \A u \in unsubscribed : u.id = 0 /\ u.n = 3
  /\ Registered(subscribersByEventName["a"]) = {1}

\* the sequence s without the elements that are not in sequence t
Kept(s, t) == SelectSeq(s, LAMBDA e : e \in Range(t))

\* C22 (SpecUnsubscribe): when the handler loop of call() or of a fired event
\* (call_tuple) is over, the latest invocations are the handlers of the
\* collection, each once, in the order of the list, with the arguments of
\* the call or the event.  The list is in registration order: addSubscriber
\* puts the new handler last, behind the handlers that were there, and an
\* operation that removes handlers leaves the others in their order.
C22_InvokeStep ==
  /\ (Running(MainThread) /\ Top(MainThread).pc = "fire") =>
       LET f == Top(MainThread)
           c == IF f.op = "call" THEN f.ref ELSE nodes[f.cur].ref
           a == IF f.op = "call" THEN f.arg ELSE nodes[f.cur].arg
           hs == colls[c].handlers
           n == Len(hs)
       IN IF f.hi <= n
          THEN /\ invLog' = Append(invLog, [ev |-> f.cur, coll |-> c,
                                            id |-> hs[f.hi].id, arg |-> a,
                                            call |-> f.call])
               /\ UNCHANGED colls
          ELSE /\ invLog' = invLog
               /\ Len(invLog) >= n
               /\ \A k \in 1..n :
                    invLog[Len(invLog) - n + k] =
                      [ev |-> f.cur, coll |-> c, id |-> hs[k].id, arg |-> a,
                       call |-> f.call]
  /\ Did("addSubscriber") =>
       LET c == subscribersByEventName["a"]
       IN /\ Len(colls'[c].handlers) > 0
          /\ Last(colls'[c].handlers).id = colls[c].newIdCounter
          /\ Last(colls'[c].handlers) \notin Range(colls[c].handlers)
          /\ Front(colls'[c].handlers) =
               Kept(colls[c].handlers, colls'[c].handlers)
  /\ (Did("unsubscribe") \/ Did("destroy")) =>
       \A c \in DOMAIN colls :
         colls'[c].handlers = Kept(colls[c].handlers, colls'[c].handlers)
C22_Invoke == [][C22_InvokeStep]_vars

\* C22 witness: three handlers were added, the second one was removed, and a
\* call() that has returned invoked the first and then the third.
C22_Witness ==
  /\ Idle(MainThread)
  /\ ret[MainThread] = Result("call", "true", 0)
  /\ subscribersByEventName["a"] # NULL
  /\ LET c == subscribersByEventName["a"]
     IN /\ colls[c].newIdCounter = 3
        /\ Len(colls[c].handlers) = 2
        /\ colls[c].handlers[1].id = 0
        /\ colls[c].handlers[2].id = 2
        /\ invLog = <<[ev |-> NULL, coll |-> c, id |-> 0, arg |-> 1, call |-> 0],
                      [ev |-> NULL, coll |-> c, id |-> 2, arg |-> 1, call |-> 0]>>

\* --------------------------------------------- more claims about the queue
\* C23 (Spec): processOne() on a non-empty queue detaches the head event, the
\* oldest one that is still queued, and starts to fire it; the other events
\* stay queued, in their order and unchanged.  While processOne() runs the
\* handlers of that event it detaches and fires nothing else, and it returns
\* true after deleting the event.  So every processOne() call fires one
\* event.
C23_ProcessOneStep ==
  LET f == Top(MainThread)
  IN /\ (TopIs(MainThread, "processOne", "grab") /\ Queue # <<>>) =>
          /\ Queue' = Tail(Queue)
          /\ \A x \in Range(Tail(Queue)) : nodes'[x] = nodes[x]
          /\ \A e \in Events : e < Head(Queue) => e \in detached
          /\ detached' = detached \cup {Head(Queue)}
          /\ Len(fireLog') = Len(fireLog) + 1
          /\ Last(fireLog').ev = Head(Queue)
          /\ Last(fireLog').op = "processOne"
          /\ stack'[MainThread] =
               <<[f EXCEPT !.pc = "fire", !.cur = Head(Queue), !.hi = 1,
                           !.call = callCtr + 1, !.locked = FALSE]>>
          /\ UNCHANGED <<registryVars, evInfo, invLog, cleared, ret>>
     /\ TopIs(MainThread, "processOne", "fire") =>
          /\ Queue' = Queue
          /\ UNCHANGED <<fireLog, detached, cleared, evInfo, registryVars>>
          /\ IF f.hi <= Len(colls[nodes[f.cur].ref].handlers)
             THEN /\ Len(invLog') = Len(invLog) + 1
                  /\ Last(invLog').ev = f.cur
                  /\ UNCHANGED <<nodes, ret>>
             ELSE /\ invLog' = invLog
                  /\ nodes' = Delete(nodes, {f.cur})
                  /\ stack'[MainThread] = <<>>
                  /\ ret'[MainThread] = Result("processOne", "true", 0)
     /\ \A k \in Fires : \A l \in Fires :
          (fireLog[k].op = "processOne" /\ fireLog[k].call = fireLog[l].call)
            => k = l
C23_ProcessOne == [][C23_ProcessOneStep]_vars

\* C23 witness: three processOne() calls have fired the events 1, 2 and 3 in
\* this order; event 2 was queued behind event 1 when the first call took
\* event 1, and event 3 was enqueued between the calls.
C23_Witness ==
  /\ Idle(MainThread)
  /\ ret[MainThread] = Result("processOne", "true", 0)
  /\ Len(fireLog) = 3
  /\ \A k \in 1..3 : fireLog[k].ev = k /\ fireLog[k].op = "processOne"
                     /\ fireLog[k].call = k
  /\ evInfo[2].epoch = 0
  /\ evInfo[3].epoch >= 1
  /\ ~evInfo[3].nested
  /\ Len(invLog) = 3

\* C24 (Spec): when process() or processOne() has taken the lock and the
\* queue is empty, it returns false (which ends an enclosing
\* processUntilEmpty), the queue stays empty and nothing is fired or invoked.
\* When the queue is not empty it does not return yet but goes on to fire,
\* and when the firing is over it returns true (an enclosing
\* processUntilEmpty then calls process() again).
C24_ReturnStep ==
  LET f == Top(MainThread)
      inLoop == Len(stack[MainThread]) = 2
  IN (Running(MainThread) /\ f.op \in {"process", "processOne"}) =>
       /\ (f.pc = "grab" /\ Queue = <<>>) =>
            /\ stack'[MainThread] = <<>>
            /\ ret'[MainThread] =
                 IF inLoop THEN Result("processUntilEmpty", "void", 0)
                 ELSE Result(f.op, "false", 0)
            /\ Queue' = <<>>
            /\ UNCHANGED <<registryVars, queueVars, histVars>>
       /\ (f.pc = "grab" /\ Queue # <<>>) =>
            /\ Len(stack'[MainThread]) = Len(stack[MainThread])
            /\ Top(MainThread)'.pc = "fire"
            /\ UNCHANGED ret
       /\ (f.pc = "fire" /\ Len(stack'[MainThread]) < Len(stack[MainThread])) =>
            IF inLoop
            THEN /\ stack'[MainThread] = <<stack[MainThread][1]>>
                 /\ UNCHANGED ret
            ELSE /\ stack'[MainThread] = <<>>
                 /\ ret'[MainThread] = Result(f.op, "true", 0)
C24_Return == [][C24_ReturnStep]_vars

\* C24 witness: three events were fired one by one, and the fourth
\* processOne() has returned false, on an empty queue.
C24_Witness ==
  /\ Idle(MainThread)
  /\ ret[MainThread] = Result("processOne", "false", 0)
  /\ Len(fireLog) = 3
  /\ \A k \in 1..3 : fireLog[k].op = "processOne"
  /\ Queue = <<>>
  /\ Len(invLog) = 3

\* C25 (Spec): no step of size() or isEmpty() changes the queue (head, tail,
\* nodes, hence content and order), the registry or what was fired or
\* invoked.  clear() under the lock empties the queue (head and tail null),
\* deletes every event that was queued and invokes or fires nothing; the
\* list walk of size() then counts 0 and isEmpty() holds.  A size(),
\* isEmpty() or process() that is called next, after clear() has returned,
\* returns 0, true and false.
C25_QueryClearStep ==
  LET f == Top(MainThread)
      afterClear == ret[MainThread] = Result("clear", "void", 0)
                    /\ Len(stack[MainThread]) = 1
  IN /\ (Running(MainThread) /\ f.op \in {"size", "isEmpty"}) =>
          /\ UNCHANGED <<registryVars, queueVars, histVars>>
          /\ Queue' = Queue
     /\ TopIs(MainThread, "clear", "grab") =>
          /\ eventQueueHead' = NULL /\ eventQueueTail' = NULL
          /\ Queue' = <<>>
          /\ nodes' = Delete(nodes, Range(Queue))
          /\ cleared' = cleared \cup Range(Queue)
          /\ UNCHANGED <<registryVars, evInfo, fireLog, invLog>>
          /\ size_count(eventQueueHead') = 0
          /\ isEmpty_check(eventQueueHead')
          /\ stack'[MainThread] = <<>>
          /\ ret'[MainThread] = Result("clear", "void", 0)
     /\ (afterClear /\ TopIs(MainThread, "size", "count")) =>
          ret'[MainThread] = Result("size", "size", 0)
     /\ (afterClear /\ TopIs(MainThread, "isEmpty", "check")) =>
          ret'[MainThread] = Result("isEmpty", "true", 0)
     /\ (afterClear /\ TopIs(MainThread, "process", "grab")) =>
          /\ ret'[MainThread] = Result("process", "false", 0)
          /\ UNCHANGED <<fireLog, invLog>>
C25_QueryClear == [][C25_QueryClearStep]_vars

\* C25 witness: two events of a topic that has a handler were queued and
\* cleared, the process() that followed has returned false, and no handler
\* has run.
C25_Witness ==
  /\ Idle(MainThread)
  /\ ret[MainThread] = Result("process", "false", 0)
  /\ Len(evInfo) = 2
  /\ cleared = {1, 2}
  /\ \A e \in cleared : Len(colls[evInfo[e].ref].handlers) = 1
  /\ fireLog = <<>> /\ invLog = <<>>
  /\ Queue = <<>>

\* the queries of C25 happen as well: size() has returned 0 after a clear()
\* of two events
C25_SizeAfterClear ==
  /\ Idle(MainThread)
  /\ ret[MainThread] = Result("size", "size", 0)
  /\ cleared = {1, 2}
  /\ Len(evInfo) = 2

\* ------------------------------------------------------------------- C26
\* C26 (SpecTeardown): destroying a queue that still holds events discards
\* all of them: every event that was queued is deleted, no event is fired and
\* no handler is invoked, nothing is thrown (the destructor returns, with the
\* warning exactly when events were queued), and the registry is left as it
\* was.  Destroying the registry invokes no handler either and fires nothing.
C26_TeardownStep ==
  /\ ("EventQueue" \in destroyed' /\ "EventQueue" \notin destroyed) =>
       /\ \A e \in Range(Chain(eventQueueHead)) : e \notin DOMAIN nodes'
       /\ fireLog' = fireLog
       /\ invLog' = invLog
       /\ ret'[MainThread] =
            Result("~EventQueue",
                   IF eventQueueHead # NULL THEN "warning" ELSE "void", 0)
       /\ UNCHANGED <<registryVars, stack, queueMutex>>
  /\ ("EventRegistry" \in destroyed' /\ "EventRegistry" \notin destroyed) =>
       /\ fireLog' = fireLog
       /\ invLog' = invLog
       /\ ret'[MainThread] = Result("~EventRegistry", "void", 0)
       /\ UNCHANGED <<stack, queueMutex>>

C26_Teardown == [][C26_TeardownStep]_vars

\* C26 witness: the queue was destroyed while two events were queued for a
\* topic with a handler; they are gone and the handler was never invoked
C26_Witness ==
  /\ destroyed = {"EventQueue"}
  /\ ret[MainThread] = Result("~EventQueue", "warning", 0)
  /\ Cardinality(cleared) >= 2
  /\ \E i \in Events :
       /\ i \in cleared
       /\ colls[evInfo[i].ref].handlers # <<>>
  /\ invLog = <<>>

\* the registry was destroyed while its topic had a handler and an event was
\* still queued for it
C26_RegistryGone ==
  /\ destroyed = {"EventRegistry"}
  /\ eventQueueHead # NULL
  /\ Len(evInfo) > 0
  /\ colls = <<>>

\* ------------------------------------------------------------------- C27
\* C27 (SpecBatches): processUntilEmpty(maxBatches) returns the number of
\* batches it processed: that many process() calls detached a batch during
\* the call.  With a limit it never processes more than maxBatches batches,
\* and it stops early only when process() reported an empty queue, so the
\* queue is then empty; it returns 0 when the queue was empty at the call.
\* Without a limit (-1) the queue is empty when it returns.
C27_BatchesStep ==
  LET t == MainThread
      f == stack[t][1]
      n == ret'[t].n
  IN (/\ Len(stack[t]) = 1
      /\ f.op = "EventSystem_processUntilEmpty"
      /\ stack'[t] = <<>>)
     => /\ ret'[t] = Result("EventSystem_processUntilEmpty", "count", n)
        /\ n = callCtr - f.call
        /\ n = Cardinality({fireLog[k].call : k \in Fires} \ (1..f.call))
        /\ f.arg >= 0 => n <= f.arg
        /\ (f.arg < 0 \/ n < f.arg) => eventQueueHead' = NULL
        /\ f.cur = NULL => n = 0
        /\ UNCHANGED <<registryVars, queueVars, histVars>>

C27_Batches == [][C27_BatchesStep]_vars

\* C27 witness: a call with limit 2 returned 2 while an event published by
\* a handler during the second batch is still queued
C27_Witness ==
  /\ Idle(MainThread)
  /\ ret[MainThread] = Result("EventSystem_processUntilEmpty", "count", 2)
  /\ eventQueueHead # NULL
  /\ \E i \in Events : evInfo[i].nested /\ i \in Range(Queue)

\* a call without limit processed three batches and left the queue empty
C27_Unlimited ==
  /\ Idle(MainThread)
  /\ ret[MainThread] = Result("EventSystem_processUntilEmpty", "count", 3)
  /\ eventQueueHead = NULL

\* a call returned 0 although events are queued: its limit was 0
C27_LimitZero ==
  /\ Idle(MainThread)
  /\ ret[MainThread] = Result("EventSystem_processUntilEmpty", "count", 0)
  /\ eventQueueHead # NULL

\* ------------------------------------------------------------------- C28
\* event j was enqueued while the batch of the call of frame f was fired
DuringCall(j, f) == f.call # 0 /\ f.call \in evInfo[j].active

\* C28 (SpecNamed): processNamed(name) fires only events whose captured
\* collection is the one registered under name, each after every event of
\* that collection enqueued before it (enqueue order, none skipped), and when
\* it returns every such event enqueued before its batch was detached has
\* been fired.  No event of another topic is fired or lost: when it returns
\* they are all on the queue, in enqueue order.  A process() call fires its
\* events in enqueue order and leaves none of those queued before its batch.
C28_NamedStep ==
  LET t == MainThread
      root == stack[t][1]
      c == subscribersByEventName[root.name]
      q == Queue'
  IN /\ (Running(t) /\ root.op = "processNamed") =>
          /\ Len(fireLog') > Len(fireLog) =>
               LET e == Last(fireLog').ev
               IN /\ Len(fireLog') = Len(fireLog) + 1
                  /\ evInfo[e].ref = c
                  /\ e \notin FiredEvents
                  /\ \A j \in Events :
                       (j < e /\ evInfo[j].ref = c) => j \in FiredEvents
          /\ stack'[t] = <<>> =>
               /\ ret'[t] = Result("processNamed", "void", 0)
               /\ \A j \in Events :
                    (evInfo[j].ref = c /\ ~DuringCall(j, root))
                      => j \in FiredEvents
               /\ \A j \in Events :
                    j \notin FiredEvents <=> j \in Range(q)
               /\ \A i, k \in 1..Len(q) : i < k => q[i] < q[k]
               /\ UNCHANGED registryVars
     /\ (Running(t) /\ root.op = "process" /\ stack'[t] = <<>>
           /\ ret'[t].val = "true") =>
          /\ \A j \in Events : ~DuringCall(j, root) => j \in FiredEvents
          /\ \A i, k \in Fires :
               (i < k /\ fireLog[i].call = root.call
                  /\ fireLog[k].call = root.call)
                 => fireLog[i].ev < fireLog[k].ev

C28_Named == [][C28_NamedStep]_vars

\* C28 witness: events were published to a, b, a; processNamed fired the
\* second one only, the next process() fired the first and the third, and a
\* handler ran for each
C28_Witness ==
  /\ Idle(MainThread)
  /\ Len(evInfo) = 3
  /\ evInfo[1].ref = evInfo[3].ref /\ evInfo[1].ref # evInfo[2].ref
  /\ [k \in Fires |-> <<fireLog[k].ev, fireLog[k].op>>] =
       <<<<2, "processNamed">>, <<1, "process">>, <<3, "process">>>>
  /\ [k \in 1..Len(invLog) |-> invLog[k].ev] = <<2, 1, 3>>

\* processNamed returned while a handler's event for the same topic, which
\* was enqueued during the call, and an older event of the other topic are
\* queued, the older one first
C28_Kept ==
  /\ Idle(MainThread)
  /\ ret[MainThread] = Result("processNamed", "void", 0)
  /\ Len(Queue) = 2
  /\ evInfo[Queue[2]].nested
  /\ evInfo[Queue[1]].ref # evInfo[Queue[2]].ref
  /\ \E k \in Fires : evInfo[fireLog[k].ev].ref = evInfo[Queue[2]].ref

\* ------------------------------------------------------------------- C30
\* s is w with each letter in upper or lower case
EqualsIgnoringCase(s, w) == s \in CaseVariants(w)

\* C30 (SpecBool): a string parses to true exactly when it is "true" with
\* each letter in either case, to false exactly when it is "false" with each
\* letter in either case, and for every other string the parse fails with
\* the invalid_argument "Illegal boolean value".
C30_BoolStep ==
  LET t == MainThread
      s == Top(t).arg
      r == ret'[t]
  IN TopIs(t, "ParameterValueParser_bool_parse", "body") =>
       /\ stack'[t] = <<>>
       /\ r.op = "ParameterValueParser_bool_parse"
       /\ r.val = "true" <=> EqualsIgnoringCase(s, <<"t", "r", "u", "e">>)
       /\ r.val = "false" <=>
            EqualsIgnoringCase(s, <<"f", "a", "l", "s", "e">>)
       /\ r.val \notin {"true", "false"} => r.val = IllegalBoolean

C30_Bool == [][C30_BoolStep]_vars

\* C30 witness: a string was parsed to true
C30_Witness ==
  /\ Idle(MainThread)
  /\ ret[MainThread] = Result("ParameterValueParser_bool_parse", "true", 0)

\* "FALSE" is about to be parsed after "true " (with a trailing blank) was
\* rejected
C30_Rejected ==
  /\ TopIs(MainThread, "ParameterValueParser_bool_parse", "body")
  /\ Top(MainThread).arg = <<"F", "A", "L", "S", "E">>
  /\ ret[MainThread] =
       Result("ParameterValueParser_bool_parse", IllegalBoolean, 0)

\* ------------------------------------------------------------------- C29
\* a well-formed string: any string for a string parameter, "true" or
\* "false" in any case for a bool, a decimal numeral with an optional minus
\* sign for an int; none for an unsupported type.  ValueOf is its value
RECURSIVE Decimal(_)
Decimal(digits) ==
  IF digits = <<>> THEN 0
  ELSE 10 * Decimal(Front(digits))
       + CHOOSE d \in 0..9 : DecimalDigits[d + 1] = Last(digits)

Numeral(s) ==
  LET d == IF s # <<>> /\ s[1] = "-" THEN Tail(s) ELSE s
  IN d # <<>> /\ \A i \in 1..Len(d) : d[i] \in Range(DecimalDigits)

WellFormed(T, s) ==
  CASE T = "string" -> TRUE
    [] T = "bool" -> \E w \in BoolWords : EqualsIgnoringCase(s, w)
    [] T = "int" -> Numeral(s)
    [] OTHER -> FALSE

ValueOf(T, s) ==
  CASE T = "string" -> s
    [] T = "bool" -> EqualsIgnoringCase(s, <<"t", "r", "u", "e">>)
    [] OTHER -> IF s[1] = "-" THEN 0 - Decimal(Tail(s)) ELSE Decimal(s)

\* C29 (SpecParse): callEvent with a vector whose length differs from the
\* topic's parameter count N fails with the invalid_argument "Wrong number
\* event arguments"; whenever callEvent fails, no handler was invoked during
\* the call; with N well-formed strings it returns and every handler was
\* invoked once, in order, with the tuple of the parsed values.
C29_CallEventStep ==
  LET t == MainThread
      f == stack[t][1]
      types == ArgTypes(colls[f.ref].type)
      N == Len(types)
      r == ret'[t]
      during == SubSeq(invLog', f.call + 1, Len(invLog'))
      hs == colls[f.ref].handlers
  IN (Running(t) /\ f.op = "callEvent" /\ stack'[t] = <<>>) =>
       /\ r.op = "callEvent"
       /\ Len(f.arg) # N => r.val = WrongNumber(N, Len(f.arg))
       /\ r.val # "void" => during = <<>>
       /\ (/\ Len(f.arg) = N
           /\ \A i \in 1..N : WellFormed(types[i], f.arg[i]))
            => /\ r.val = "void"
               /\ during =
                    [k \in 1..Len(hs) |->
                       [ev |-> NULL, coll |-> f.ref, id |-> hs[k].id,
                        arg |-> [i \in 1..N |-> ValueOf(types[i], f.arg[i])],
                        call |-> 0]]

C29_CallEvent == [][C29_CallEventStep]_vars

\* C29 witness: the topic (int, bool) with two handlers was called with
\* "10" and "fAlSe", and both handlers were invoked with (10, FALSE)
C29_Witness ==
  /\ Idle(MainThread)
  /\ ret[MainThread] = Result("callEvent", "void", 0)
  /\ Len(invLog) = 2
  /\ invLog[1].id # invLog[2].id
  /\ \A k \in 1..2 : invLog[k].arg = <<10, FALSE>>

\* the topic (int, bool) with a handler was called with one string
C29_Arity ==
  /\ Idle(MainThread)
  /\ ret[MainThread] = Result("callEvent", WrongNumber(2, 1), 0)
  /\ subscribersByEventName["a"] # NULL
  /\ colls[subscribersByEventName["a"]].handlers # <<>>
  /\ invLog = <<>>

\* the topic (bool, char*) was called with "yes" and another string: the
\* bool is malformed and the pointer cannot be parsed
C29_Malformed ==
  /\ Idle(MainThread)
  /\ ret[MainThread] = Result("callEvent", IllegalBoolean, 0)
  /\ subscribersByEventName["a"] # NULL
  /\ colls[subscribersByEventName["a"]].type = "bool, char*"
  /\ colls[subscribersByEventName["a"]].handlers # <<>>

\* ------------------------------------------------------------------- C31
\* C31 (SpecParse): on a topic with one int parameter, callEvent with one
\* string that is not entirely a decimal numeral (non-numeric content, or
\* anything after a leading number) fails with the invalid_argument "Illegal
\* integer value" and invokes no handler; with a numeral it invokes the
\* handlers with its value.
C31_IntegerStep ==
  LET t == MainThread
      f == stack[t][1]
      r == ret'[t]
      during == SubSeq(invLog', f.call + 1, Len(invLog'))
      hs == colls[f.ref].handlers
  IN (/\ Running(t) /\ f.op = "callEvent" /\ stack'[t] = <<>>
      /\ colls[f.ref].type = "int" /\ Len(f.arg) = 1) =>
       IF Numeral(f.arg[1])
       THEN /\ r.val = "void"
            /\ Len(during) = Len(hs)
            /\ \A k \in 1..Len(during) :
                 during[k].arg = <<ValueOf("int", f.arg[1])>>
       ELSE /\ r.val = IllegalInteger
            /\ during = <<>>

C31_Integer == [][C31_IntegerStep]_vars

\* C31 witness: callEvent with "1x" on a topic with an int parameter and a
\* handler has returned, and the handler was invoked with 1
C31_Witness ==
  /\ Idle(MainThread)
  /\ ret[MainThread] = Result("callEvent", "void", 0)
  /\ subscribersByEventName["a"] # NULL
  /\ colls[subscribersByEventName["a"]].type = "int"
  /\ Len(invLog) = 1
  /\ invLog[1].arg = <<1>>
  /\ nCall = 1

\* ------------------------------------------------------------------- C32
Supported(types) ==
  \A i \in 1..Len(types) : types[i] \in {"bool", "int", "string"}

\* C32 (SpecMarshal): canParseArgs() is true iff no parameter type of the
\* topic is unsupported (true without parameters); when it is false, every
\* callEvent and enqueueEvent with as many strings as the topic has
\* parameters fails with the logic_error "Cannot parse an unsupported
\* parameter type.", whatever the strings are, and no handler is invoked and
\* no event enqueued.
C32_UnsupportedStep ==
  LET t == MainThread
      f == stack[t][1]
      types == ArgTypes(colls[f.ref].type)
      r == ret'[t]
  IN (Running(t) /\ stack'[t] = <<>>) =>
       /\ f.op = "canParseArgs" => (r.val = "true" <=> Supported(types))
       /\ (/\ f.op \in {"callEvent", "enqueueEvent"}
           /\ ~Supported(types)
           /\ Len(f.arg) = Len(types))
            => /\ r.val = Unsupported
               /\ f.op = "callEvent" => Len(invLog') = f.call
               /\ f.op = "enqueueEvent" => Len(evInfo') = f.call

C32_Unsupported == [][C32_UnsupportedStep]_vars

\* C32 witness: canParseArgs() was false for the topic (bool, char*), and
\* enqueueEvent with "yes" and another string failed on the malformed bool;
\* nothing was enqueued
C32_Witness ==
  /\ Idle(MainThread)
  /\ ret[MainThread] = Result("enqueueEvent", IllegalBoolean, 0)
  /\ subscribersByEventName["a"] # NULL
  /\ colls[subscribersByEventName["a"]].type = "bool, char*"
  /\ evInfo = <<>>

\* ------------------------------------------------------------------- C33
\* a string without any digit is no integer
NoDigit(s) == \A i \in 1..Len(s) : s[i] \notin Range(DecimalDigits)

\* C33 (SpecMarshal): enqueueEvent invokes no handler.  Where callEvent
\* fails (wrong number of strings, an unsupported type, a malformed bool or
\* integer) it fails, and the queue and the number of events are as they were
\* at the call; with well-formed strings it returns, and then exactly one
\* event was created, with the topic's collection and the tuple of the parsed
\* values, and appended at the tail of the queue.
C33_EnqueueStep ==
  LET t == MainThread
      f == stack[t][1]
      types == ArgTypes(colls[f.ref].type)
      N == Len(types)
      r == ret'[t]
      e == Len(evInfo) + 1
      linking == Top(t).op = "enqueue_tuple" /\ Top(t).pc = "link"
  IN (Running(t) /\ f.op = "enqueueEvent") =>
       /\ invLog' = invLog /\ fireLog' = fireLog
       /\ IF linking
          THEN /\ Len(evInfo) = f.call
               /\ Queue' = Append(Queue, e)
               /\ eventQueueTail' = e
               /\ evInfo' = Append(evInfo, evInfo'[e])
               /\ evInfo'[e].ref = f.ref
               /\ nodes'[e].ref = f.ref
               /\ nodes'[e].arg = evInfo'[e].arg
               /\ \A i \in 1..N :
                    WellFormed(types[i], f.arg[i]) =>
                      nodes'[e].arg[i] = ValueOf(types[i], f.arg[i])
          ELSE /\ Queue' = Queue
               /\ evInfo' = evInfo
               /\ nodes' = nodes
       /\ stack'[t] = <<>> =>
            /\ r.op = "enqueueEvent"
            /\ Len(evInfo') = f.call + (IF r.val = "void" THEN 1 ELSE 0)
            /\ Len(f.arg) # N => r.val = WrongNumber(N, Len(f.arg))
            /\ (/\ Len(f.arg) = N
                /\ \E i \in 1..N :
                     \/ types[i] \notin {"bool", "int", "string"}
                     \/ types[i] = "bool" /\ ~WellFormed("bool", f.arg[i])
                     \/ types[i] = "int" /\ NoDigit(f.arg[i]))
                 => r.val \in {Unsupported, IllegalBoolean, IllegalInteger}
            /\ (/\ Len(f.arg) = N
                /\ \A i \in 1..N : WellFormed(types[i], f.arg[i]))
                 => r.val = "void"

C33_Enqueue == [][C33_EnqueueStep]_vars

\* C33 witness: on the topic (int, bool) with a handler, a second event was
\* enqueued from "10" and "True" behind a first one, and no handler was
\* invoked
C33_Witness ==
  /\ Idle(MainThread)
  /\ ret[MainThread] = Result("enqueueEvent", "void", 0)
  /\ Len(Queue) = 2
  /\ eventQueueTail = 2
  /\ nodes[2].arg = <<10, TRUE>>
  /\ colls[nodes[2].ref].handlers # <<>>
  /\ invLog = <<>>

\* enqueueEvent with "yes" for a bool failed behind a queued event, and the
\* queue holds that one event
C33_Failed ==
  /\ Idle(MainThread)
  /\ ret[MainThread] = Result("enqueueEvent", IllegalBoolean, 0)
  /\ Queue = <<1>>
  /\ Len(evInfo) = 1

\* ------------------------------------------------------------------- C34
\* at most one collection was created for each name: every collection is the
\* one its name is bound to
OneCollectionPerName ==
  /\ \A c \in 1..Len(colls) : \E n \in Names : subscribersByEventName[n] = c
  /\ Len(colls) <= Cardinality({n \in Names : subscribersByEventName[n] # NULL})

\* C34 (SpecRegistry): in every interleaving of threads that call
\* registerEvent, getOrRegister, getSubscribers and subscribe for one name,
\* at most one collection is ever created for the name; registerEvent,
\* getOrRegister and getSubscribers return the collection the name is bound
\* to (getSubscribers NULL while it is bound to none) or fail, registerEvent
\* only with the "already registered" error and only when the name is bound;
\* registerEvent has succeeded for at most one thread.
C34_AtomicStep ==
  /\ OneCollectionPerName'
  /\ Cardinality({t \in DOMAIN ret :
                   /\ ret'[t].op = "registerEvent"
                   /\ ret'[t].val = "collection"}) <= 1
  /\ \A t \in DOMAIN stack :
       LET f == stack[t][1]
           r == ret'[t]
       IN (Running(t) /\ stack'[t] = <<>> /\ f.op # "subscribe") =>
            /\ r.op = f.op
            /\ r.val = "collection" =>
                 /\ r.n = subscribersByEventName'[f.name]
                 /\ r.n = NULL <=> (f.op = "getSubscribers" /\ f.cur = NULL)
                 /\ f.op = "registerEvent" =>
                      /\ subscribersByEventName[f.name] = NULL
                      /\ colls' = Append(colls, EmptyCollection(Decay(f.sig)))
            /\ r.val # "collection" =>
                 /\ subscribersByEventName[f.name] # NULL
                 /\ UNCHANGED <<subscribersByEventName, colls>>
                 /\ r.val = IF f.op = "registerEvent" THEN AlreadyRegistered
                            ELSE TypesDontMatchMsg(
                                   colls[subscribersByEventName[f.name]].type,
                                   f.sig)

C34_Atomic == [][C34_AtomicStep]_vars

\* C34 witness: p1 and p2 were both inside registerEvent for a, p2 has
\* returned with the one collection and p1, which found the name bound, is
\* about to fail; c waits for the lock in subscribe
C34_Witness ==
  /\ ret["p2"] = Result("registerEvent", "collection", 1)
  /\ TopIs("p1", "registerEvent", "store")
  /\ Top("p1").name = "a"
  /\ Top("p1").cur = 1
  /\ TopIs(Consumer, "subscribe", "body")
  /\ registryMutex = "p1"
  /\ Len(colls) = 1

\* both threads have called registerEvent for a: one has the collection, the
\* other one the error, and c's handler is in that collection
C34_OneWinner ==
  /\ ret["p1"] = Result("registerEvent", AlreadyRegistered, 0)
  /\ ret["p2"] = Result("registerEvent", "collection", 1)
  /\ ret[Consumer].op = "subscribe"
  /\ ret[Consumer].val = "handle"
  /\ Len(colls[1].handlers) = 1

\* ------------------------------------------------------------------- C35
\* C35 (SpecReentrant): the registry mutex is only ever held by a thread
\* that is inside a registry method (registerEvent, getOrRegister,
\* getSubscribers), between its lock and its return.  So it is not held by a
\* thread whose handler runs, unless the handler itself is inside such a
\* method; a thread that is about to look a name up inside a handler does not
\* hold it already, and a thread whose handler blocks does not hold it.
C35_NotHeld ==
  \A t \in DOMAIN stack :
    /\ registryMutex = t =>
         /\ Running(t)
         /\ Top(t).op \in RegistryOps
         /\ Top(t).pc \in {"find", "store"}
    /\ (Running(t) /\ Top(t).pc \in {"body", "lookup", "fire", "blocked"})
         => registryMutex # t

\* C35 witness: inside call("a"), the handler of a has called
\* registerEvent for b and has returned; no other thread has done anything
C35_Witness ==
  /\ TopIs(Consumer, "call", "fire")
  /\ Len(stack[Consumer]) = 1
  /\ Top(Consumer).hi = 2
  /\ colls[Top(Consumer).ref].handlers[1].body.k = "registerEvent"
  /\ subscribersByEventName["b"] # NULL
  /\ ret[Bystander] = NoRet
  /\ stack[Bystander] = <<>>

\* fired by process(), the handler of a has subscribed a handler to b
C35_Process ==
  /\ TopIs(Consumer, "process", "fire")
  /\ Len(stack[Consumer]) = 1
  /\ Top(Consumer).hi = 2
  /\ subscribersByEventName["b"] # NULL
  /\ colls[subscribersByEventName["b"]].handlers # <<>>
  /\ ret[Bystander] = NoRet
  /\ stack[Bystander] = <<>>

\* the handler of a blocks, and another thread is inside registerEvent
C35_Blocked ==
  /\ Running(Consumer)
  /\ Top(Consumer).pc = "blocked"
  /\ TopIs(Bystander, "registerEvent", "store")
  /\ registryMutex = Bystander

\* ------------------------------------------------------------------- C36
\* the events process() has passed to fire()
Fired == {fireLog[k].ev : k \in 1..Len(fireLog)}

\* the events of the batches that process() calls are still working on
ProcessFrames ==
  UNION {{stack[t][i] : i \in 1..Len(stack[t])} : t \in DOMAIN stack}
InBatch ==
  UNION {Range(Chain(f.cur)) :
           f \in {g \in ProcessFrames : g.op = "process" /\ g.pc = "fire"}}

\* C36 (SpecThrow): an event that process() has detached and not fired is
\* in the batch of a process() call that is still running, or it is on the
\* queue again, the events that are on the queue again being in the order of
\* their enqueuing; also after a handler has thrown.
C36_NoneDropped ==
  /\ \A e \in detached \ (Fired \cup cleared) :
       e \in InBatch \/ e \in Range(Queue)
  /\ \A i, j \in 1..Len(Queue) : i < j => Queue[i] < Queue[j]

\* C36 witness: process() has detached two events, the handler of the first
\* one has thrown, and the second one was not fired, is not on the queue and
\* was not deleted
C36_Witness ==
  /\ Idle(MainThread)
  /\ ret[MainThread] = Result("process", HandlerException, 0)
  /\ detached = {1, 2}
  /\ Fired = {1}
  /\ Queue = <<>>
  /\ 2 \in DOMAIN nodes

\* ------------------------------------------------------------------- C37
\* the invocations that belong to event e
InvocationsOf(e) == SelectSeq(invLog, LAMBDA v : v.ev = e)

\* C37 (SpecCapture): a queued event keeps the collection and the argument
\* it was published with.  When process() has fired it and deletes it, its
\* invocations are those of the handlers the collection has then, each once, in
\* order, with that argument: a handler subscribed since the publish is
\* among them, a handler unsubscribed since the publish is not.
C37_CaptureStep ==
  /\ \A e \in DOMAIN nodes \cap DOMAIN nodes' :
       /\ nodes'[e].ref = evInfo[e].ref
       /\ nodes'[e].arg = evInfo[e].arg
  /\ TopIs(MainThread, "process", "fire") =>
       LET f == Top(MainThread)
           e == f.cur
           hs == colls[evInfo[e].ref].handlers
           now == {hs[k].id : k \in 1..Len(hs)}
       IN e \notin DOMAIN nodes' =>
            /\ InvocationsOf(e) =
                 [k \in 1..Len(hs) |->
                    [ev |-> e, coll |-> evInfo[e].ref, id |-> hs[k].id,
                     arg |-> evInfo[e].arg, call |-> f.call]]
            /\ \A id \in now \ evInfo[e].subs :
                 \E k \in 1..Len(invLog) :
                   invLog[k].ev = e /\ invLog[k].id = id
            /\ \A id \in evInfo[e].subs \ now :
                 ~\E k \in 1..Len(invLog) :
                   invLog[k].ev = e /\ invLog[k].id = id

C37_Capture == [][C37_CaptureStep]_vars

\* C37 witness: the event was published with 2 while handler 0 was the only
\* handler; then handler 0 was unsubscribed and handler 1 subscribed, and
\* process() has invoked handler 1 with 2 and no other handler
C37_Witness ==
  /\ Idle(MainThread)
  /\ ret[MainThread] = Result("process", "true", 0)
  /\ Len(evInfo) = 1
  /\ evInfo[1].subs = {0}
  /\ evInfo[1].arg = 2
  /\ Len(invLog) = 1
  /\ invLog[1].ev = 1
  /\ invLog[1].id = 1
  /\ invLog[1].arg = 2

\* ------------------------------------------------------------------- C38
\* the events of running process() calls that are still to be fired
Pending == InBatch \ Fired

\* C38 (SpecConsumers): with two threads in process() and processOne() and
\* a third thread publishing, no event is passed to fire() twice, and every
\* enqueued event is in exactly one place: on the queue, waiting in the batch
\* of a running process() call, or fired.  Head is NULL iff tail is NULL, and
\* the tail is the last node reachable from the head and has no successor.
C38_ExactlyOnce ==
  /\ \A k1, k2 \in 1..Len(fireLog) :
       fireLog[k1].ev = fireLog[k2].ev => k1 = k2
  /\ \A e \in 1..Len(evInfo) :
       /\ e \in Range(Queue) \/ e \in Pending \/ e \in Fired
       /\ ~(e \in Range(Queue) /\ e \in Pending \cup Fired)
  /\ eventQueueHead = NULL <=> eventQueueTail = NULL
  /\ eventQueueHead # NULL =>
       /\ eventQueueTail = Last(Queue)
       /\ nodes[eventQueueTail].next = NULL

\* C38 witness: c is firing the second event of a batch of two that its
\* process() detached, while p1 is firing the third event, which its
\* processOne() took
C38_Witness ==
  /\ TopIs(Consumer, "process", "fire")
  /\ Top(Consumer).cur = 2
  /\ TopIs("p1", "processOne", "fire")
  /\ Top("p1").cur = 3
  /\ Fired = {1, 2, 3}
  /\ \E k \in 1..Len(fireLog) : fireLog[k].ev = 1 /\ fireLog[k].by = Consumer

\* all three events were fired, two by c and one by p1, and the queue is empty
C38_AllFired ==
  /\ \A t \in DOMAIN stack : Idle(t)
  /\ Len(evInfo) = 3
  /\ Fired = {1, 2, 3}
  /\ {fireLog[k].by : k \in 1..Len(fireLog)} = Consumers
  /\ eventQueueHead = NULL
  /\ Len(invLog) = 3

\* ------------------------------------------------------------------- C39
\* thread t, inside a handler, is about to take events from the queue
NestedGrab(t) ==
  /\ Len(stack[t]) > 1
  /\ Top(t).pc = "grab"
  /\ Top(t).op \in {"process", "processOne", "clear"}

\* the calls of t that are firing: the ones whose handlers led to its
\* innermost call
FiringFrames(t) ==
  {stack[t][i] : i \in {j \in 1..Len(stack[t]) : stack[t][j].pc = "fire"}}

\* the batches are kept: no event is passed to fire() twice; an event that
\* was detached and not deleted by clear() is fired or waits in the batch of
\* a running process(); no detached event is on the queue; the events one
\* call fires are fired in the order of their enqueuing, none left out
BatchesKept ==
  /\ \A k1, k2 \in 1..Len(fireLog) :
       fireLog[k1].ev = fireLog[k2].ev => k1 = k2
  /\ \A e \in detached \ (Fired \cup cleared) : e \in InBatch
  /\ Range(Queue) \cap detached = {}
  /\ \A k1, k2 \in 1..Len(fireLog) :
       (/\ k1 < k2
        /\ fireLog[k1].call = fireLog[k2].call
        /\ \A k \in (k1 + 1)..(k2 - 1) : fireLog[k].call # fireLog[k1].call)
         => fireLog[k2].ev = fireLog[k1].ev + 1

\* C39 as stated (SpecNested): the batches are kept, and what a process(),
\* processOne() or clear() called by a handler takes from the queue was
\* enqueued after the detach of every call that is firing, process() or
\* processOne().
C39_AsStatedStep ==
  /\ BatchesKept'
  /\ \A t \in DOMAIN stack :
       NestedGrab(t) =>
         \A e \in detached' \ detached :
           \A o \in FiringFrames(t) : evInfo[e].epoch >= o.call

C39_AsStated == [][C39_AsStatedStep]_vars

\* C39, amended (SpecNested): the batches are kept, and what a process(),
\* processOne() or clear() called by a handler takes from the queue was not
\* detached by a call that is firing: it was enqueued after the detach of
\* every process() that is firing, and it is not the event of a processOne()
\* that is firing, though it can have been queued behind that event.
C39_NestedStep ==
  /\ BatchesKept'
  /\ \A t \in DOMAIN stack :
       NestedGrab(t) =>
         \A e \in detached' \ detached :
           /\ e \notin detached
           /\ \A o \in FiringFrames(t) :
                /\ e # o.cur
                /\ o.op = "process" => evInfo[e].epoch >= o.call

C39_Nested == [][C39_NestedStep]_vars

\* C39 witness: process() detached the events 1 and 2; the handler of 1
\* published event 3, the handler of 2 has called process(), which detached
\* event 3 and is firing it, while event 2 is still the event of the outer
\* call
C39_Witness ==
  /\ Len(stack[MainThread]) = 2
  /\ stack[MainThread][1].op = "process"
  /\ stack[MainThread][1].pc = "fire"
  /\ stack[MainThread][1].cur = 2
  /\ TopIs(MainThread, "process", "fire")
  /\ Top(MainThread).cur = 3
  /\ Fired = {1, 2, 3}
  /\ evInfo[3].epoch = 1

\* processOne() took event 1 from in front of event 2, and the handler of 1
\* has called process(), which is firing event 2
C39_Behind ==
  /\ Len(stack[MainThread]) = 2
  /\ stack[MainThread][1].op = "processOne"
  /\ stack[MainThread][1].pc = "fire"
  /\ stack[MainThread][1].cur = 1
  /\ TopIs(MainThread, "process", "fire")
  /\ Top(MainThread).cur = 2
  /\ evInfo[2].epoch = 0

\* ------------------------------------------------------------------- C40
\* f is the frame of a processUntilEmpty call
Draining(f) == f.op \in {"processUntilEmpty", "EventSystem_processUntilEmpty"}

\* f is the frame of a processUntilEmpty call without a limit of batches
Unlimited(f) == Draining(f) /\ f.arg < 0

\* a handler that publishes on every firing was invoked since the call of
\* frame f began
Republished(f) ==
  \E k \in 1..Len(invLog) :
    /\ invLog[k].call > f.call
    /\ \E h \in Range(colls[invLog[k].coll].handlers) :
         h.id = invLog[k].id /\ h.body.k = "repub"

\* no subscribed handler publishes on every firing
NoneRepublishes ==
  \A c \in DOMAIN colls :
    \A h \in Range(colls[c].handlers) : h.body.k # "repub"

C40_ReturnStep ==
  LET t == MainThread
      f == stack[t][1]
  IN (Running(t) /\ Draining(f) /\ stack'[t] = <<>>)
     => /\ Unlimited(f) =>
             /\ eventQueueHead' = NULL
             /\ \A e \in 1..Len(evInfo') :
                  Cardinality({k \in 1..Len(fireLog') :
                                 fireLog'[k].ev = e}) = 1
             /\ ~Republished(f)
        /\ (~Unlimited(f) /\ Republished(f)) =>
             /\ ret'[t].n = f.arg
             /\ callCtr' - f.call = f.arg

\* C40 (SpecDrain, one thread, no other producer): a processUntilEmpty
\* without a limit returns only with an empty queue and every event that was
\* ever enqueued fired exactly once, and it does not return once it has
\* invoked a handler that publishes to its own topic on every firing; a
\* call with the limit k that has invoked such a handler returns k, after k
\* batches; and when no handler publishes on every firing (the handlers
\* publish MaxEvents events at most), every processUntilEmpty returns.
C40_Drain ==
  /\ [][C40_ReturnStep]_vars
  /\ (/\ Running(MainThread)
      /\ Draining(stack[MainThread][1])
      /\ NoneRepublishes) ~> Idle(MainThread)

\* C40 witness: EventQueue::processUntilEmpty() has returned after it fired
\* three events, one of them published by a handler during the call, and
\* the queue is empty
C40_Witness ==
  /\ Idle(MainThread)
  /\ ret[MainThread] = Result("processUntilEmpty", "void", 0)
  /\ eventQueueHead = NULL
  /\ Len(fireLog) = 3
  /\ \E i \in Events : evInfo[i].nested
  /\ \A k \in 1..Len(fireLog) : fireLog[k].root = "processUntilEmpty"

\* a call with the limit 2 has returned 2 although a handler publishes on
\* every firing: the event of its last publish is queued
C40_Limited ==
  /\ Idle(MainThread)
  /\ ret[MainThread] = Result("EventSystem_processUntilEmpty", "count", 2)
  /\ ~NoneRepublishes
  /\ \E i \in Range(Queue) : evInfo[i].nested

\* a call without limit has invoked a handler that publishes on every
\* firing in three batches and is still running
C40_Running ==
  /\ Running(MainThread)
  /\ Unlimited(stack[MainThread][1])
  /\ Republished(stack[MainThread][1])
  /\ callCtr - stack[MainThread][1].call = 3

====
